---------------------------- MODULE Spec2Model ----------------------------
(***************************************************************************)
(* Model of the Bluesky push notifier: firehose consumer and cursor store, *)
(* event classifier / filter, relationship manager, device registration    *)
(* and the APNs dispatcher.                                                *)
(*                                                                         *)
(* Strings whose content the code inspects (DIDs, AT-URIs, record paths)   *)
(* are sequences of character codes, so that str::contains, == and         *)
(* format!() are computed rather than assumed.                             *)
(***************************************************************************)
EXTENDS Integers, Sequences, FiniteSets, TLC

\* ------------------------------------------------------------------ bounds
MaxEvents == 1      \* events the filter receives in one run
MaxApiCalls == 1    \* management API requests in one run (Spec, SpecDispatch)
MaxRegs == 2        \* register_device requests in one run (SpecReg)
NotifCap == 1       \* capacity of the notification channel (1000 in main.rs:112)
ChunkSize == 1      \* dids per device query (dids.chunks(10) in db.rs:60)
BaseSeq == 8        \* seq of the last commit before the model starts
MaxSeq == 10        \* highest commit seq the upstream produces
MaxEpochs == 2      \* upstream sessions (the relay restarts its seq)
MaxRestarts == 1    \* restarts of the consumer process
MaxDbFailures == 1  \* failed statements on the cursor store
MaxWriters == 2     \* concurrent update_relationships_batch calls (SpecRel)
MaxMaint == 2       \* run_cache_maintenance runs (SpecRel)
EventCap == 1       \* capacity of the event channel
MaxMalformed == 1   \* malformed upstream inputs
MaxInFlight == 1    \* callers inside get_post_content at the same time
MaxCalls == 3       \* update_relationships_batch calls in a row (SpecRelSeq)
MinTextLen == 136   \* characters of the shortest upstream post text
MaxTextLen == 142   \* characters of the longest upstream post text
MaxWide == 2        \* two-byte characters at one end of a post text
MaxOrdered == 2     \* events of the commits of SpecOrder
MaxWaiters == 2     \* callers inside get_post_content at once (SpecCoalesce)
MaxPending == 26    \* callers that miss the caches in one burst (SpecBatch)
MaxStalled == 2     \* events the classifier takes in SpecStall

\* ------------------------------------------------------- program constants
MAX_RETRIES == 3
MAX_RECONNECTS == 10
failure_threshold == 5
success_threshold == 2
InitialBackoff == 100   \* let mut backoff_ms = 100

\* ----------------------------------------------------------------- strings
\* character codes
ChAt == 30          \* '@'
ChSlash == 31       \* '/'
ChDot == 32         \* '.'
Scheme == <<40>>    \* "at://"
CollPost == <<50>>      \* "app.bsky.feed.post"
CollLike == <<51>>      \* "app.bsky.feed.like"
CollRepost == <<52>>    \* "app.bsky.feed.repost"
CollFollow == <<53>>    \* "app.bsky.graph.follow"
Rkey == <<60>>          \* a record key (TID)

\* actor identifiers; DidAB has DidA as a proper substring
\* (as "did:web:a.co" is a substring of "did:web:a.com")
DidA == <<1>>
DidAB == <<1, 2>>
DidC == <<3>>
DidX == <<4>>
RegDids == {DidA, DidAB, DidC}      \* actors that may register a device
AllDids == RegDids \cup {DidX}
\* the order in which SELECT DISTINCT returns the actors
DidOrder == <<DidA, DidAB, DidC, DidX>>

\* str::contains(sub), sub non-empty
Contains(s, sub) ==
    \E i \in 0..(Len(s) - Len(sub)) : SubSeq(s, i + 1, i + Len(sub)) = sub

\* Vec::contains
VecContains(v, x) == \E i \in 1..Len(v) : v[i] = x

\* format!("at://{}/app.bsky.feed.post/{}", did, rkey)
PostUri(did) == Scheme \o did \o <<ChSlash>> \o CollPost \o <<ChSlash>> \o Rkey

\* the elements of set S in DidOrder order, without duplicates
SetToVec(S) == SelectSeq(DidOrder, LAMBDA d : d \in S)

VecToSet(v) == {v[i] : i \in 1..Len(v)}

NoDuplicates(v) == \A i, j \in 1..Len(v) : v[i] = v[j] => i = j

\* ------------------------------------------------------------------ events
\* serde_json::Value of a record: an absent string is <<>>, an absent
\* object has present = FALSE
NoEmbed == [present |-> FALSE, type |-> "", hasRecord |-> FALSE,
            uri |-> <<>>, inner |-> <<>>]
\* app.bsky.embed.images: no "record" member
ImagesEmbed == [present |-> TRUE, type |-> "app.bsky.embed.images",
                hasRecord |-> FALSE, uri |-> <<>>, inner |-> <<>>]
\* app.bsky.embed.record: embed.record = {cid, uri}
RecordEmbed(u) == [present |-> TRUE, type |-> "app.bsky.embed.record",
                   hasRecord |-> TRUE, uri |-> u, inner |-> <<>>]
\* app.bsky.embed.recordWithMedia: embed.record.record = {cid, uri}
RecordWithMediaEmbed(u) ==
    [present |-> TRUE, type |-> "app.bsky.embed.recordWithMedia",
     hasRecord |-> TRUE, uri |-> <<>>, inner |-> u]

Uris == {PostUri(d) : d \in {DidA, DidAB, DidX}}
Embeds == {NoEmbed, ImagesEmbed} \cup {RecordEmbed(u) : u \in Uris}
              \cup {RecordWithMediaEmbed(u) : u \in {PostUri(DidA), PostUri(DidX)}}
Replies == {<<>>} \cup Uris
\* the did of every richtext.facet#mention feature, in document order
MentionLists == {<<>>, <<DidC>>, <<DidA, DidC>>, <<DidA, DidA>>, <<DidX>>}
Texts == {<<>>, <<ChAt>> \o DidA}
Authors == {DidC, DidX}

MkEvent(author, coll, embed, reply, mentions, subject, text) ==
    [author |-> author,
     path |-> coll \o <<ChSlash>> \o Rkey,
     record |-> [embed |-> embed, reply |-> reply, facets |-> mentions,
                 subject |-> subject, text |-> text]]

PostEvents ==
    {MkEvent(a, CollPost, em, r, m, <<>>, t) :
        a \in Authors, em \in Embeds, r \in Replies, m \in MentionLists,
        t \in Texts}
LikeEvents == {MkEvent(a, CollLike, NoEmbed, <<>>, <<>>, u, <<>>) :
                  a \in Authors, u \in Uris}
RepostEvents == {MkEvent(a, CollRepost, NoEmbed, <<>>, <<>>, u, <<>>) :
                    a \in Authors, u \in Uris}
FollowEvents == {MkEvent(a, CollFollow, NoEmbed, <<>>, <<>>, d, <<>>) :
                    a \in Authors, d \in AllDids}
Events == PostEvents \cup LikeEvents \cup RepostEvents \cup FollowEvents


\* -------------------------------------------------------------- classifier
\* Option<(NotificationType, Vec<String>)>
NoneResult == [kind |-> "None", dids |-> <<>>]
SomeResult(kind, dids) == [kind |-> kind, dids |-> dids]
Kinds == {"Mention", "Reply", "Like", "Follow", "Repost", "Quote"}

\* for user in users { if uri.contains(user) && !result.contains(user)
\*                        { result.push(user) } }
RECURSIVE PushContaining(_, _, _)
PushContaining(users, uri, result) ==
    IF users = <<>> THEN result
    ELSE LET user == Head(users)
             r == IF Contains(uri, user) /\ ~VecContains(result, user)
                  THEN Append(result, user) ELSE result
         IN PushContaining(Tail(users), uri, r)

has_quote_embed(record) ==
    IF record.embed.present
    THEN IF record.embed.hasRecord THEN TRUE
         ELSE record.embed.type \in {"app.bsky.embed.record",
                                     "app.bsky.embed.recordWithMedia"}
    ELSE FALSE

\* record_obj is embed.record: .inner is record_obj.record.uri, .uri is
\* record_obj.uri
extract_quoted_dids(record_obj, registered_users, result) ==
    LET r1 == IF record_obj.inner # <<>>
              THEN PushContaining(registered_users, record_obj.inner, result)
              ELSE result
    IN IF record_obj.uri # <<>>
       THEN PushContaining(registered_users, record_obj.uri, r1)
       ELSE r1

find_quoted_users(event, registered_users) ==
    LET embed == event.record.embed
        q1 == IF embed.present /\ embed.hasRecord
              THEN extract_quoted_dids(embed, registered_users, <<>>)
              ELSE <<>>
    IN IF embed.present /\ embed.type = "app.bsky.embed.recordWithMedia"
          /\ embed.hasRecord
       THEN extract_quoted_dids(embed, registered_users, q1)
       ELSE q1

\* the mention loop without registered_users.contains(did)
RECURSIVE PushMentioned_Unchecked(_, _, _)
PushMentioned_Unchecked(facets, registered_users, mentioned_dids) ==
    IF facets = <<>> THEN mentioned_dids
    ELSE LET did == Head(facets)
             r == IF ~VecContains(mentioned_dids, did)
                  THEN Append(mentioned_dids, did) ELSE mentioned_dids
         IN PushMentioned_Unchecked(Tail(facets), registered_users, r)

\* if registered_users.contains(did) && !mentioned_dids.contains(did)
\*    { mentioned_dids.push(did) }
RECURSIVE PushMentioned(_, _, _)
PushMentioned(facets, registered_users, mentioned_dids) ==
    IF facets = <<>> THEN mentioned_dids
    ELSE LET did == Head(facets)
             r == IF VecContains(registered_users, did)
                     /\ ~VecContains(mentioned_dids, did)
                  THEN Append(mentioned_dids, did) ELSE mentioned_dids
         IN PushMentioned(Tail(facets), registered_users, r)

extract_mention_dids(event, registered_users) ==
    PushMentioned(event.record.facets, registered_users, <<>>)

extract_target_dids(event, registered_users) ==
    IF Contains(event.path, CollFollow)
    THEN SelectSeq(registered_users, LAMBDA did : event.record.subject = did)
    ELSE IF Contains(event.path, CollLike) \/ Contains(event.path, CollRepost)
    THEN IF event.record.subject # <<>>
         THEN SelectSeq(registered_users,
                        LAMBDA did : Contains(event.record.subject, did))
         ELSE <<>>
    ELSE IF Contains(event.path, CollPost)
    THEN IF event.record.reply # <<>>
         THEN SelectSeq(registered_users,
                        LAMBDA did : Contains(event.record.reply, did))
         ELSE <<>>
    ELSE <<>>

\* the "Regular post - check for mentions in facets" arm
MentionArm(event, registered_users) ==
    LET mentioned_dids == extract_mention_dids(event, registered_users)
    IN IF mentioned_dids # <<>> THEN SomeResult("Mention", mentioned_dids)
       ELSE NoneResult

\* the reply arm without the fall-through to the mention check
ReplyArm_NoFallThrough(event, registered_users) ==
    LET relevant_dids == extract_target_dids(event, registered_users)
    IN IF relevant_dids # <<>> THEN SomeResult("Reply", relevant_dids)
       ELSE NoneResult

\* the "check if it's a reply" arm
ReplyArm(event, registered_users) ==
    LET relevant_dids == extract_target_dids(event, registered_users)
    IN IF relevant_dids # <<>> THEN SomeResult("Reply", relevant_dids)
       ELSE MentionArm(event, registered_users)

classify_event(event, registered_users) ==
    LET r ==
        IF Contains(event.path, CollPost)
        THEN IF has_quote_embed(event.record)
             THEN LET quoted_dids == find_quoted_users(event, registered_users)
                  IN IF quoted_dids # <<>>
                     THEN SomeResult("Quote", quoted_dids)
                     ELSE IF event.record.reply # <<>>
                     THEN ReplyArm(event, registered_users)
                     ELSE MentionArm(event, registered_users)
             ELSE IF event.record.reply # <<>>
             THEN ReplyArm(event, registered_users)
             ELSE MentionArm(event, registered_users)
        ELSE IF Contains(event.path, CollLike)
        THEN SomeResult("Like", extract_target_dids(event, registered_users))
        ELSE IF Contains(event.path, CollFollow)
        THEN SomeResult("Follow", extract_target_dids(event, registered_users))
        ELSE IF Contains(event.path, CollRepost)
        THEN SomeResult("Repost", extract_target_dids(event, registered_users))
        ELSE NoneResult
    IN IF r.dids = <<>> THEN NoneResult ELSE r

\* user.split('.').next()
RECURSIVE SplitFirst(_, _)
SplitFirst(s, ch) ==
    IF s = <<>> \/ Head(s) = ch THEN <<>>
    ELSE <<Head(s)>> \o SplitFirst(Tail(s), ch)

is_quote_of_users(record_obj, users) ==
    \/ /\ record_obj.inner # <<>>
       /\ \E i \in 1..Len(users) : Contains(record_obj.inner, users[i])
    \/ /\ record_obj.uri # <<>>
       /\ \E i \in 1..Len(users) : Contains(record_obj.uri, users[i])

is_event_relevant_to_users(event, users) ==
    IF Contains(event.path, CollFollow)
    THEN \E i \in 1..Len(users) : event.record.subject = users[i]
    ELSE
      \/ /\ Contains(event.path, CollLike) \/ Contains(event.path, CollRepost)
         /\ event.record.subject # <<>>
         /\ \E i \in 1..Len(users) : Contains(event.record.subject, users[i])
      \/ /\ Contains(event.path, CollPost)
         /\ \/ \E k \in 1..Len(event.record.facets) :
                  \E i \in 1..Len(users) : event.record.facets[k] = users[i]
            \/ /\ event.record.reply # <<>>
               /\ \E i \in 1..Len(users) :
                     Contains(event.record.reply, users[i])
            \/ /\ event.record.embed.present
               /\ event.record.embed.hasRecord
               /\ is_quote_of_users(event.record.embed, users)
            \/ /\ event.record.text # <<>>
               /\ \E i \in 1..Len(users) :
                     Contains(event.record.text,
                              <<ChAt>> \o SplitFirst(users[i], ChDot))

\* ------------------------------------------------------------------- state
VARIABLES
    \* classify_event applied to one event (SpecClassify)
    cEvent, cUsers, cOut,
    \* persistent store: user_devices, notification_preferences
    devices, prefs, nextId,
    \* in-flight POST /register requests, PUT /preferences count
    regs, prefUpdates,
    \* persistent store: user_mutes, user_blocks and their hashed mirrors,
    \* relationship_audit_log
    user_mutes, user_blocks, user_mutes_hashed, user_blocks_hashed, audit_log,
    \* RelationshipManager
    mutes_cache, blocks_cache, use_hashed_storage,
    \* in-flight update_relationships_batch calls, run_cache_maintenance,
    \* and per user the
    \* sets of the last committed write
    upds, maint, maintRuns, lastWrite,
    \* run_event_filter
    registered_users, filt, devices_map, tasks, evCount,
    \* notification channel and run_notification_sender
    notifQ, disp,
    \* history: payloads enqueued, pushes the gateway accepted, recipients
    \* for which is_muted / is_blocked returned true, preference flags
    \* loaded as false, registered set used per event, rows deleted by the
    \* last dispatcher step
    enqueued, accepted, suppressed, prefOff, usedReg, unmatched, lastPush,
    \* firehose consumer, cursor store and upstream relay
    \* history: the seq of every cursor write, in the order of the writes
    firehose_cursor, fh, upstream, delivered, cursorWrites,
    \* main: the supervisor and the shutdown one-shot; the event channel
    \* between consumer and filter; history: malformed upstream input seen
    sup, eventQ, malformed,
    \* PostResolver: circuit breaker, the two cache tiers, request_queue,
    \* get_post_content calls, spawned update_caches tasks
    \* history: consecutive failed upstream calls, whether the breaker has
    \* re-closed after being open
    api_circuit_breaker, post_memory_cache, post_cache, request_queue,
    lookups, cacheJobs, failStreak, reclosed,
    \* DidResolver::get_handles_bulk applied to one request (SpecHandles)
    hReq, hOut,
    \* one upstream post text and what a fetch returns for it (SpecTruncate)
    upText, gotText,
    \* arguments and results of the CryptoUtils functions (SpecCrypto)
    hashIn, hashOut,
    \* the clock, and the entries with their expires_at of the memory and
    \* persistent tier of the handle cache and the post cache (SpecExpiry)
    \* the reader and the sweeper of each cache between their two tiers
    \* history: the last cache operation
    now, memory_cache, db_cache, cacheTask, cacheOp

classifyVars == <<cEvent, cUsers, cOut>>
deviceVars == <<devices, prefs, nextId>>
apiVars == <<regs, prefUpdates>>
relStoreVars == <<user_mutes, user_blocks, user_mutes_hashed,
                  user_blocks_hashed, audit_log>>
relCacheVars == <<mutes_cache, blocks_cache, use_hashed_storage>>
relTaskVars == <<upds, maint, maintRuns, lastWrite>>
filterVars == <<registered_users, filt, devices_map, tasks, evCount>>
dispVars == <<notifQ, disp>>
historyVars == <<enqueued, accepted, suppressed, prefOff, usedReg, unmatched,
                 lastPush>>
firehoseVars == <<firehose_cursor, fh, upstream, delivered, cursorWrites,
                  sup, eventQ, malformed>>
expiryVars == <<now, memory_cache, db_cache, cacheTask, cacheOp>>
resolverVars == <<api_circuit_breaker, post_memory_cache, post_cache,
                  request_queue, lookups, cacheJobs, failStreak, reclosed,
                  hReq, hOut, upText, gotText, hashIn, hashOut,
                  expiryVars>>

vars == <<classifyVars, resolverVars, deviceVars, apiVars, relStoreVars,
          relCacheVars, relTaskVars, filterVars, dispVars, historyVars, firehoseVars>>

Tokens == {"t1", "t2"}

\* ------------------------------------------------------------ device store
\* NotificationPreference; column defaults of notification_preferences
DefaultPrefs == [mentions |-> TRUE, replies |-> TRUE, likes |-> TRUE,
                 follows |-> TRUE, reposts |-> TRUE, quotes |-> TRUE]
MentionsOff == [DefaultPrefs EXCEPT !.mentions = FALSE]
LikesOnly == [mentions |-> FALSE, replies |-> FALSE, likes |-> TRUE,
              follows |-> FALSE, reposts |-> FALSE, quotes |-> FALSE]
PrefChoices == {MentionsOff, LikesOnly}

\* SELECT DISTINCT did FROM user_devices
get_registered_users(devs) == SetToVec({r.did : r \in devs})

\* the rows a statement with WHERE device_token = token sees
RowsWithToken(devs, token) == {r \in devs : r.device_token = token}

\* a constraint that is unique per (did, device_token) only
UniqueViolation_PerActor(devs, did, token) ==
    \E r \in devs : r.device_token = token /\ r.did = did

\* UNIQUE constraint of user_devices: an INSERT of (did, token) is refused
UniqueViolation(devs, did, token) == \E r \in devs : r.device_token = token

\* ON DELETE CASCADE from user_devices to notification_preferences
CascadePrefs(p, devs) == [id \in {r.id : r \in devs} |-> p[id]]

\* rows locked FOR UPDATE by register_device transactions not yet committed
LockedTokens == {regs[i].token : i \in {j \in DOMAIN regs :
                            regs[j].pc = "selected" /\ regs[j].found # 0}}

\* an INSERT that stores no row
InsertDevice_NoRow(devs, id, did, token) == devs

\* INSERT INTO user_devices (did, device_token) VALUES ($1, $2)
\* RETURNING id
InsertDevice(devs, id, did, token) ==
    devs \cup {[id |-> id, did |-> did, device_token |-> token]}

NewReq == [pc |-> "new", did |-> <<>>, token |-> "", found |-> 0,
           foundDid |-> <<>>, status |-> 0]

\* register_device up to the SELECT ... FOR UPDATE; waits while another
\* transaction holds the row lock
RegSelect(i, did, token) ==
    /\ regs[i].pc = "new"
    /\ \A j \in 1..(i - 1) : regs[j].pc # "new"
    /\ token \notin LockedTokens
    /\ \/ /\ RowsWithToken(devices, token) = {}
          /\ regs' = [regs EXCEPT ![i] =
                 [pc |-> "selected", did |-> did, token |-> token,
                  found |-> 0, foundDid |-> <<>>, status |-> 0]]
       \/ \E r \in RowsWithToken(devices, token) :
             regs' = [regs EXCEPT ![i] =
                 [pc |-> "selected", did |-> did, token |-> token,
                  found |-> r.id, foundDid |-> r.did, status |-> 0]]
    /\ UNCHANGED <<classifyVars, resolverVars, deviceVars, prefUpdates, relStoreVars,
                   relCacheVars, relTaskVars, filterVars, dispVars,
                   historyVars, firehoseVars>>

\* register_device from the match on existing_token to the response
RegWrite(i) ==
    /\ regs[i].pc = "selected"
    /\ LET req == regs[i] IN
       IF req.found # 0
       THEN IF req.foundDid = req.did
            THEN /\ regs' = [regs EXCEPT ![i].pc = "done", ![i].status = 200]
                 /\ UNCHANGED deviceVars
            ELSE \* UPDATE user_devices SET did = $1 WHERE device_token = $2
                 /\ devices' = {IF r.device_token = req.token
                                THEN [r EXCEPT !.did = req.did] ELSE r :
                                r \in devices}
                 /\ regs' = [regs EXCEPT ![i].pc = "done", ![i].status = 200]
                 /\ UNCHANGED <<prefs, nextId>>
       ELSE IF UniqueViolation(devices, req.did, req.token)
            THEN /\ regs' = [regs EXCEPT ![i].pc = "done", ![i].status = 500]
                 /\ UNCHANGED deviceVars
            ELSE /\ devices' = InsertDevice(devices, nextId, req.did,
                                            req.token)
                 /\ prefs' = [id \in DOMAIN prefs \cup {nextId} |->
                                IF id = nextId THEN DefaultPrefs ELSE prefs[id]]
                 /\ nextId' = nextId + 1
                 /\ regs' = [regs EXCEPT ![i].pc = "done", ![i].status = 201]
    /\ UNCHANGED <<classifyVars, resolverVars, prefUpdates, relStoreVars, relCacheVars,
                   relTaskVars, filterVars, dispVars, historyVars,
                   firehoseVars>>

\* update_preferences: every device row of the did gets the request's flags
UpdatePreferences(did, flags) ==
    /\ prefUpdates' = prefUpdates + 1
    /\ prefs' = [id \in DOMAIN prefs |->
                   IF \E r \in devices : r.id = id /\ r.did = did
                   THEN flags ELSE prefs[id]]
    /\ UNCHANGED <<classifyVars, resolverVars, devices, nextId, regs, relStoreVars,
                   relCacheVars, relTaskVars, filterVars, dispVars,
                   historyVars, firehoseVars>>

\* ------------------------------------------------------------- history bags
\* a bag as a function from its elements to their multiplicity
BagAdd(b, x) ==
    [y \in DOMAIN b \cup {x} |->
        IF y = x THEN (IF x \in DOMAIN b THEN b[x] + 1 ELSE 1) ELSE b[y]]
EmptyBag == [y \in {} |-> 0]

\* -------------------------------------------------------------- dispatcher
\* what a2::Client::send returns: Ok(Response) only for status 200,
\* Err(ResponseError(code)) for every other status, Err(..) on transport
\* failure
SendOutcomes == {"ok", "gone", "rejected", "transport"}

NoPayload == [eid |-> 0, user_did |-> <<>>, device_token |-> "", kind |-> ""]
\* (slept: the sleeps taken so far for the payload in hand, in ms)
IdleDisp == [pc |-> "idle", payload |-> NoPayload, retry_count |-> 0,
             last |-> "", backoff_ms |-> InitialBackoff, slept |-> <<>>]

\* a wait that stays the same from retry to retry
NextBackoff_Constant(ms) == ms

\* backoff_ms *= 2
NextBackoff(ms) == ms * 2
NoPush == [result |-> "", token |-> "", deleted |-> {}]

\* a DELETE keyed by the payload's actor instead of its token
DeletedRows_ByActor(devs, payload) == {r \in devs : r.did = payload.user_did}

\* DELETE FROM user_devices WHERE device_token = $1
DeletedRows(devs, payload) == RowsWithToken(devs, payload.device_token)

\* notification_receiver.recv()
DispRecv ==
    /\ disp.pc = "idle"
    /\ notifQ # <<>>
    /\ disp' = [IdleDisp EXCEPT !.pc = "sending", !.payload = Head(notifQ)]
    /\ notifQ' = Tail(notifQ)
    /\ UNCHANGED <<classifyVars, resolverVars, deviceVars, apiVars, relStoreVars,
                   relCacheVars, relTaskVars, filterVars, historyVars,
                   firehoseVars>>

\* one pass of the loop of send_notification and, when it returns, the
\* match on its result in run_notification_sender
DispAttempt(outcome) ==
    /\ disp.pc = "sending"
    /\ IF outcome = "ok"
       THEN /\ disp' = [IdleDisp EXCEPT !.last = outcome]
            /\ accepted' = BagAdd(accepted,
                   <<disp.payload.eid, disp.payload.device_token>>)
            /\ lastPush' = [result |-> outcome,
                            token |-> disp.payload.device_token,
                            deleted |-> {}]
       ELSE IF disp.retry_count + 1 >= MAX_RETRIES
       THEN /\ IF outcome = "gone"
               THEN /\ disp' = [disp EXCEPT !.pc = "deleting",
                                            !.retry_count = @ + 1,
                                            !.last = outcome]
                    /\ UNCHANGED lastPush
               ELSE /\ disp' = [IdleDisp EXCEPT !.last = outcome]
                    /\ lastPush' = [result |-> outcome,
                                    token |-> disp.payload.device_token,
                                    deleted |-> {}]
            /\ UNCHANGED accepted
       ELSE /\ disp' = [disp EXCEPT !.retry_count = @ + 1, !.last = outcome,
                                     !.slept = Append(@, disp.backoff_ms),
                                     !.backoff_ms = NextBackoff(@)]
            /\ UNCHANGED <<accepted, lastPush>>
    /\ UNCHANGED <<classifyVars, resolverVars, deviceVars, apiVars, relStoreVars,
                   relCacheVars, relTaskVars, filterVars, notifQ, enqueued,
                   suppressed, prefOff, usedReg, unmatched, firehoseVars>>

\* the DELETE after a 410; waits for row locks of register_device
DispDelete ==
    /\ disp.pc = "deleting"
    /\ disp.payload.device_token \notin LockedTokens
    /\ devices' = devices \ DeletedRows(devices, disp.payload)
    /\ prefs' = CascadePrefs(prefs, devices')
    /\ disp' = [IdleDisp EXCEPT !.last = "gone"]
    /\ lastPush' = [result |-> "gone", token |-> disp.payload.device_token,
                    deleted |-> DeletedRows(devices, disp.payload)]
    /\ UNCHANGED <<classifyVars, resolverVars, nextId, apiVars, relStoreVars, relCacheVars,
                   relTaskVars, filterVars, notifQ, enqueued, accepted,
                   suppressed, prefOff, usedReg, unmatched, firehoseVars>>

\* ---------------------------------------------------- relationship manager
ServerSecret == <<70>>

\* a hash that leaves the user out of the salt
hash_did_Unsalted(did_to_hash, user_did) ==
    [sha256 |-> did_to_hash \o ServerSecret]

\* format!("{:x}", Sha256(did_to_hash ++ user_did ++ server_secret)); the
\* digest of a byte string is represented by the byte string itself
hash_did(did_to_hash, user_did) ==
    [sha256 |-> did_to_hash \o user_did \o ServerSecret]

\* did_matches_hash
did_matches_hash(did_to_check, user_did, stored_hash) ==
    hash_did(did_to_check, user_did) = stored_hash

\* hash_dids_batch
hash_dids_batch(dids_to_hash, user_did) ==
    [i \in 1..Len(dids_to_hash) |-> hash_did(dids_to_hash[i], user_did)]

NoHashes == [done |-> FALSE]
NoHashArgs == [t |-> <<>>, t2 |-> <<>>, u |-> <<>>, u2 |-> <<>>]

CryptoIdle ==
    /\ hashIn = NoHashArgs
    /\ hashOut = NoHashes

\* the DIDs the CryptoUtils functions are applied to: one is a prefix of
\* another, and one ends in the server secret
HashDids == {<<1>>, <<1, 2>>, <<2>>, <<2, 1>>, <<1, 70>>}

\* hash_did(t, u) twice, hash_did(t, u2), did_matches_hash(t2, u, hash),
\* hash_dids_batch([t, t2], u)
ApplyCrypto ==
    /\ ~hashOut.done
    /\ hashIn # NoHashArgs
    /\ hashOut' = [done |-> TRUE,
                   first |-> hash_did(hashIn.t, hashIn.u),
                   again |-> hash_did(hashIn.t, hashIn.u),
                   other |-> hash_did(hashIn.t, hashIn.u2),
                   matches |-> did_matches_hash(hashIn.t2, hashIn.u,
                                   hash_did(hashIn.t, hashIn.u)),
                   batch |-> hash_dids_batch(<<hashIn.t, hashIn.t2>>,
                                             hashIn.u)]
    /\ UNCHANGED <<classifyVars, deviceVars, apiVars, relStoreVars,
                   relCacheVars, relTaskVars, filterVars, dispVars,
                   historyVars, firehoseVars, api_circuit_breaker,
                   post_memory_cache, post_cache, request_queue, lookups,
                   cacheJobs, failStreak, reclosed, hReq, hOut, upText,
                   gotText, hashIn, expiryVars>>

NoEntry == [present |-> FALSE, set |-> {}]
Entry(S) == [present |-> TRUE, set |-> S]

\* is_muted / is_blocked over one cache and its two tables: the value
\* returned
RelLookup(cache, hashedTable, plainTable, user_did, target_did) ==
    IF cache[user_did].present
    THEN target_did \in cache[user_did].set
    ELSE IF use_hashed_storage
    THEN hash_did(target_did, user_did) \in hashedTable[user_did]
    ELSE target_did \in plainTable[user_did]

\* a lookup that answers "muted" / "blocked" when its query fails
RelQuery_FailClosed(found, dbOk) == IF dbOk THEN found ELSE TRUE

\* the answer of is_muted / is_blocked given what the tables hold and
\* whether the query succeeds: Err(e) => false in both storage modes
RelQuery(found, dbOk) == IF dbOk THEN found ELSE FALSE

\* is_muted / is_blocked with a query that succeeds or fails; a cache
\* entry is answered without a query
RelLookupDb(cache, hashedTable, plainTable, user_did, target_did, dbOk) ==
    IF cache[user_did].present
    THEN target_did \in cache[user_did].set
    ELSE RelQuery(RelLookup(cache, hashedTable, plainTable, user_did,
                            target_did), dbOk)

\* is_muted / is_blocked: the cache after the call (load_*_for_user
\* inserts on a miss in plaintext mode)
RelLookupCache(cache, plainTable, user_did) ==
    IF ~cache[user_did].present /\ ~use_hashed_storage
    THEN [cache EXCEPT ![user_did] = Entry(plainTable[user_did])]
    ELSE cache

is_muted(user_did, target_did) ==
    RelLookup(mutes_cache, user_mutes_hashed, user_mutes, user_did, target_did)

is_blocked(user_did, target_did) ==
    RelLookup(blocks_cache, user_blocks_hashed, user_blocks, user_did,
              target_did)

MuteChoices == {{}, {DidC}}
BlockChoices == {{}, {DidX}}

\* history: nothing recorded for a call that has not returned Ok
NoSnapshot == [taken |-> FALSE]

\* history: the stored and cached sets of user_did
Snapshot(um, ub, umh, ubh, mc, bc, user_did) ==
    [taken |-> TRUE, user_mutes |-> um[user_did],
     user_blocks |-> ub[user_did], user_mutes_hashed |-> umh[user_did],
     user_blocks_hashed |-> ubh[user_did], mutes_cache |-> mc[user_did],
     blocks_cache |-> bc[user_did]]

\* DELETE ... WHERE user_did = $1 that rewrites the rows it should remove
ReplaceRows_Toggle(old, new) == (old \ new) \cup (new \ old)

\* DELETE FROM <table> WHERE user_did = $1, then the batch INSERT of the
\* request's rows: the rows of the user afterwards
ReplaceRows(old, new) == new

NewUpd == [pc |-> "new", user |-> <<>>, token |-> "", mutes |-> {},
           blocks |-> {}, after |-> NoSnapshot]
NoCommit == [written |-> FALSE, mutes |-> {}, blocks |-> {}, fresh |-> FALSE,
             by |-> 0]

\* a SELECT with WHERE device_token = $2 alone
authenticate_device_TokenOnly(devs, did, device_token) ==
    \E r \in devs : r.device_token = device_token

\* authenticate_device
authenticate_device(devs, did, device_token) ==
    \E r \in devs : r.did = did /\ r.device_token = device_token

HashSet(S, user_did) == {hash_did(d, user_did) : d \in S}

\* update_relationships_batch up to tx.commit(): authentication, then the
\* transaction of update_relationships_batch_hashed / _plaintext
UpdCommit(i, user_did, device_token, mutes, blocks) ==
    /\ upds[i].pc = "new"
    /\ \A j \in 1..(i - 1) : upds[j].pc # "new"
    /\ IF ~authenticate_device(devices, user_did, device_token)
       THEN /\ upds' = [upds EXCEPT ![i] =
                  [pc |-> "failed", user |-> user_did,
                   token |-> device_token, mutes |-> mutes,
                   blocks |-> blocks, after |-> NoSnapshot]]
            /\ UNCHANGED <<relStoreVars, lastWrite>>
       ELSE /\ upds' = [upds EXCEPT ![i] =
                  [pc |-> "committed", user |-> user_did,
                   token |-> device_token, mutes |-> mutes,
                   blocks |-> blocks, after |-> NoSnapshot]]
            /\ user_mutes' = [user_mutes EXCEPT ![user_did] =
                                  ReplaceRows(@, mutes)]
            /\ user_blocks' = [user_blocks EXCEPT ![user_did] =
                                   ReplaceRows(@, blocks)]
            /\ IF use_hashed_storage
               THEN /\ user_mutes_hashed' = [user_mutes_hashed EXCEPT
                          ![user_did] =
                              ReplaceRows(@, HashSet(mutes, user_did))]
                    /\ user_blocks_hashed' = [user_blocks_hashed EXCEPT
                          ![user_did] =
                              ReplaceRows(@, HashSet(blocks, user_did))]
               ELSE UNCHANGED <<user_mutes_hashed, user_blocks_hashed>>
            /\ audit_log' = Append(audit_log,
                   [user_did |-> user_did, device_token |-> device_token,
                    mutes_count |-> Cardinality(mutes),
                    blocks_count |-> Cardinality(blocks),
                    using_hashed_dids |-> use_hashed_storage])
            /\ lastWrite' = [lastWrite EXCEPT ![user_did] =
                   [written |-> TRUE, mutes |-> mutes, blocks |-> blocks,
                    fresh |-> TRUE, by |-> i]]
    /\ UNCHANGED <<classifyVars, resolverVars, deviceVars, apiVars, relCacheVars, maint,
                   maintRuns, filterVars, dispVars, historyVars,
                   firehoseVars>>

\* self.mutes_cache.insert(user_did, mute_set).await
UpdCacheMutes(i) ==
    /\ upds[i].pc = "committed"
    /\ mutes_cache' = [mutes_cache EXCEPT ![upds[i].user] =
                          Entry(upds[i].mutes)]
    /\ upds' = [upds EXCEPT ![i].pc = "mutes_cached"]
    /\ UNCHANGED <<classifyVars, resolverVars, deviceVars, apiVars, relStoreVars,
                   blocks_cache, use_hashed_storage, maint, maintRuns,
                   lastWrite, filterVars, dispVars, historyVars, firehoseVars>>

\* self.blocks_cache.insert(user_did, block_set).await; Ok(())
UpdCacheBlocks(i) ==
    /\ upds[i].pc = "mutes_cached"
    /\ blocks_cache' = [blocks_cache EXCEPT ![upds[i].user] =
                           Entry(upds[i].blocks)]
    /\ upds' = [upds EXCEPT ![i].pc = "done",
                             ![i].after = Snapshot(user_mutes, user_blocks,
                                 user_mutes_hashed, user_blocks_hashed,
                                 mutes_cache, blocks_cache', upds[i].user)]
    /\ UNCHANGED <<classifyVars, resolverVars, deviceVars, apiVars, relStoreVars,
                   mutes_cache, use_hashed_storage, maint, maintRuns,
                   lastWrite, filterVars, dispVars, historyVars, firehoseVars>>

\* update_relationships_batch statement by statement. The transaction is
\* opened with db_pool.begin() and no isolation level, which is READ
\* COMMITTED: a statement sees the rows committed when it starts and the
\* transaction's own writes, a DELETE waits for a row another open
\* transaction has deleted and then skips it, and the writes become
\* visible to others at commit. upds[i] holds, while pc = "tx", the index n
\* of the next statement, the rows deleted and inserted so far per table,
\* and the rows a waiting DELETE has found
TxPlanHashed ==
    <<[op |-> "delete", t |-> "mh"], [op |-> "delete", t |-> "bh"],
      [op |-> "delete", t |-> "m"], [op |-> "delete", t |-> "b"],
      [op |-> "insert", t |-> "m"], [op |-> "insert", t |-> "mh"],
      [op |-> "insert", t |-> "b"], [op |-> "insert", t |-> "bh"],
      [op |-> "audit", t |-> ""]>>

TxPlanPlaintext ==
    <<[op |-> "delete", t |-> "m"], [op |-> "delete", t |-> "b"],
      [op |-> "insert", t |-> "m"], [op |-> "insert", t |-> "b"],
      [op |-> "audit", t |-> ""]>>

TxPlan == IF use_hashed_storage THEN TxPlanHashed ELSE TxPlanPlaintext

NoRows == [m |-> {}, b |-> {}, mh |-> {}, bh |-> {}]
NoWait == [on |-> FALSE, rows |-> {}]

\* the committed rows of one user in one table
CommittedRows(t, user_did) ==
    CASE t = "m" -> user_mutes[user_did]
      [] t = "b" -> user_blocks[user_did]
      [] t = "mh" -> user_mutes_hashed[user_did]
      [] t = "bh" -> user_blocks_hashed[user_did]

\* the rows an INSERT of the transaction writes into one table
NewRows(u, t) ==
    CASE t = "m" -> u.mutes
      [] t = "b" -> u.blocks
      [] t = "mh" -> HashSet(u.mutes, u.user)
      [] t = "bh" -> HashSet(u.blocks, u.user)

\* rows of the user that other open transactions have deleted
LockedRows(i, t, user_did) ==
    UNION {upds[j].del[t] : j \in {k \in DOMAIN upds \ {i} :
                                     /\ upds[k].pc = "tx"
                                     /\ upds[k].user = user_did}}

\* a transaction whose writes stay when it is abandoned
TxAbandon_KeepWrites(table, del, ins) == (table \ del) \cup ins

\* the Transaction is dropped without commit: its writes are rolled back
TxAbandon(table, del, ins) == table

\* authenticate_device and db_pool.begin()
TxBegin(i, user_did, device_token, mutes, blocks) ==
    /\ upds[i].pc = "new"
    /\ \A j \in 1..(i - 1) : upds[j].pc # "new"
    /\ upds' = [upds EXCEPT ![i] =
          [pc |-> IF authenticate_device(devices, user_did, device_token)
                  THEN "tx" ELSE "failed",
           user |-> user_did, token |-> device_token, mutes |-> mutes,
           blocks |-> blocks, after |-> NoSnapshot, n |-> 1,
           del |-> NoRows, ins |-> NoRows, wait |-> NoWait]]
    /\ UNCHANGED <<classifyVars, resolverVars, deviceVars, apiVars,
                   relStoreVars, relCacheVars, maint, maintRuns, lastWrite,
                   filterVars, dispVars, historyVars, firehoseVars>>

\* the next statement of update_relationships_batch_hashed / _plaintext
TxStmt(i) ==
    /\ upds[i].pc = "tx"
    /\ upds[i].n <= Len(TxPlan)
    /\ LET u == upds[i]
           s == TxPlan[u.n]
           found == IF u.wait.on THEN u.wait.rows
                    ELSE CommittedRows(s.t, u.user)
       IN CASE s.op = "delete" ->
                 IF found \cap LockedRows(i, s.t, u.user) # {}
                 THEN /\ ~u.wait.on
                      /\ upds' = [upds EXCEPT ![i].wait =
                                     [on |-> TRUE, rows |-> found]]
                 ELSE upds' = [upds EXCEPT
                         ![i].del[s.t] =
                             found \cap CommittedRows(s.t, u.user),
                         ![i].wait = NoWait,
                         ![i].n = @ + 1]
            [] s.op = "insert" ->
                 upds' = [upds EXCEPT ![i].ins[s.t] = NewRows(u, s.t),
                                      ![i].n = @ + 1]
            [] OTHER -> upds' = [upds EXCEPT ![i].n = @ + 1]
    /\ UNCHANGED <<classifyVars, resolverVars, deviceVars, apiVars,
                   relStoreVars, relCacheVars, maint, maintRuns, lastWrite,
                   filterVars, dispVars, historyVars, firehoseVars>>

\* a statement or the commit fails: `?` returns and drops the Transaction
TxFail(i) ==
    /\ upds[i].pc = "tx"
    /\ ~upds[i].wait.on
    /\ LET u == upds[i]
       IN /\ user_mutes' = [user_mutes EXCEPT ![u.user] =
                               TxAbandon(@, u.del.m, u.ins.m)]
          /\ user_blocks' = [user_blocks EXCEPT ![u.user] =
                                TxAbandon(@, u.del.b, u.ins.b)]
          /\ user_mutes_hashed' = [user_mutes_hashed EXCEPT ![u.user] =
                                      TxAbandon(@, u.del.mh, u.ins.mh)]
          /\ user_blocks_hashed' = [user_blocks_hashed EXCEPT ![u.user] =
                                       TxAbandon(@, u.del.bh, u.ins.bh)]
    /\ upds' = [upds EXCEPT ![i].pc = "error"]
    /\ UNCHANGED <<classifyVars, resolverVars, deviceVars, apiVars,
                   audit_log, relCacheVars, maint, maintRuns, lastWrite,
                   filterVars, dispVars, historyVars, firehoseVars>>

\* tx.commit(): the deletes, the inserts and the audit row become visible
TxCommit(i) ==
    /\ upds[i].pc = "tx"
    /\ upds[i].n = Len(TxPlan) + 1
    /\ LET u == upds[i]
       IN /\ user_mutes' = [user_mutes EXCEPT ![u.user] =
                               (@ \ u.del.m) \cup u.ins.m]
          /\ user_blocks' = [user_blocks EXCEPT ![u.user] =
                                (@ \ u.del.b) \cup u.ins.b]
          /\ user_mutes_hashed' = [user_mutes_hashed EXCEPT ![u.user] =
                                      (@ \ u.del.mh) \cup u.ins.mh]
          /\ user_blocks_hashed' = [user_blocks_hashed EXCEPT ![u.user] =
                                       (@ \ u.del.bh) \cup u.ins.bh]
          /\ audit_log' = Append(audit_log,
                 [user_did |-> u.user, device_token |-> u.token,
                  mutes_count |-> Cardinality(u.mutes),
                  blocks_count |-> Cardinality(u.blocks),
                  using_hashed_dids |-> use_hashed_storage])
          /\ lastWrite' = [lastWrite EXCEPT ![u.user] =
                 [written |-> TRUE, mutes |-> u.mutes, blocks |-> u.blocks,
                  fresh |-> TRUE, by |-> i]]
    /\ upds' = [upds EXCEPT ![i].pc = "committed"]
    /\ UNCHANGED <<classifyVars, resolverVars, deviceVars, apiVars,
                   relCacheVars, maint, maintRuns, filterVars, dispVars,
                   historyVars, firehoseVars>>

\* req.mutes.len() > 1000 || req.blocks.len() > 1000
MaxRelationships == 1000

\* a size test that also refuses a list of exactly 1000 entries
TooLarge_Inclusive(mutes, blocks) ==
    Len(mutes) >= MaxRelationships \/ Len(blocks) >= MaxRelationships

TooLarge(mutes, blocks) ==
    Len(mutes) > MaxRelationships \/ Len(blocks) > MaxRelationships

\* PUT /relationships: the size test, then update_relationships_batch up
\* to tx.commit(); mutes and blocks are the arrays of the request body
update_relationships(i, did, device_token, mutes, blocks) ==
    IF TooLarge(mutes, blocks)
    THEN /\ upds[i].pc = "new"
         /\ \A j \in 1..(i - 1) : upds[j].pc # "new"
         /\ upds' = [upds EXCEPT ![i] =
                [pc |-> "rejected", user |-> did, token |-> device_token,
                 mutes |-> VecToSet(mutes), blocks |-> VecToSet(blocks),
                 after |-> NoSnapshot]]
         /\ UNCHANGED <<classifyVars, resolverVars, deviceVars, apiVars,
                        relStoreVars, relCacheVars, maint, maintRuns,
                        lastWrite, filterVars, dispVars, historyVars,
                        firehoseVars>>
    ELSE UpdCommit(i, did, device_token, VecToSet(mutes), VecToSet(blocks))

\* the status update_relationships answers with; 0 while the call runs
RelationshipsStatus(u) ==
    CASE u.pc = "rejected" -> 400
      [] u.pc = "failed" -> 401
      [] u.pc = "done" -> 200
      [] OTHER -> 0

\* time_to_live(3600 s) of both moka caches: the entries of a user expire
CacheExpire(user_did) ==
    /\ mutes_cache[user_did].present \/ blocks_cache[user_did].present
    /\ mutes_cache' = [mutes_cache EXCEPT ![user_did] = NoEntry]
    /\ blocks_cache' = [blocks_cache EXCEPT ![user_did] = NoEntry]
    /\ lastWrite' = [lastWrite EXCEPT ![user_did].fresh = FALSE]
    /\ UNCHANGED <<classifyVars, resolverVars, deviceVars, apiVars, relStoreVars,
                   use_hashed_storage, upds, maint, maintRuns, filterVars,
                   dispVars, historyVars, firehoseVars>>

\* is_muted / is_blocked on a cache miss in plaintext mode: the lookup
\* leaves the loaded set in the cache
RelRead(user_did) ==
    /\ ~use_hashed_storage
    /\ ~mutes_cache[user_did].present \/ ~blocks_cache[user_did].present
    /\ mutes_cache' = RelLookupCache(mutes_cache, user_mutes, user_did)
    /\ blocks_cache' = RelLookupCache(blocks_cache, user_blocks, user_did)
    /\ UNCHANGED <<classifyVars, resolverVars, deviceVars, apiVars, relStoreVars,
                   use_hashed_storage, upds, maint, maintRuns, lastWrite,
                   filterVars, dispVars, historyVars, firehoseVars>>

IdleMaint == [pc |-> "idle", todo |-> <<>>, loaded |-> {}]

\* run_cache_maintenance: the two SELECT DISTINCT user_did queries
MaintStart ==
    /\ maint.pc = "idle"
    /\ maintRuns < MaxMaint
    /\ maintRuns' = maintRuns + 1
    /\ LET all_dids == {u \in RegDids :
                           user_mutes[u] # {} \/ user_blocks[u] # {}}
       IN maint' = IF all_dids = {} THEN IdleMaint
                   ELSE [pc |-> "load_mutes", todo |-> SetToVec(all_dids),
                         loaded |-> {}]
    /\ UNCHANGED <<classifyVars, resolverVars, deviceVars, apiVars, relStoreVars,
                   relCacheVars, upds, lastWrite, filterVars, dispVars,
                   historyVars, firehoseVars>>

\* load_mutes_for_user / load_blocks_for_user: the SELECT
MaintLoad ==
    /\ maint.pc \in {"load_mutes", "load_blocks"}
    /\ maint' = IF maint.pc = "load_mutes"
                THEN [maint EXCEPT !.pc = "insert_mutes",
                                   !.loaded = user_mutes[Head(maint.todo)]]
                ELSE [maint EXCEPT !.pc = "insert_blocks",
                                   !.loaded = user_blocks[Head(maint.todo)]]
    /\ UNCHANGED <<classifyVars, resolverVars, deviceVars, apiVars, relStoreVars,
                   relCacheVars, upds, maintRuns, lastWrite, filterVars,
                   dispVars, historyVars, firehoseVars>>

\* load_mutes_for_user / load_blocks_for_user: the cache insert
MaintInsert ==
    /\ maint.pc \in {"insert_mutes", "insert_blocks"}
    /\ IF maint.pc = "insert_mutes"
       THEN /\ mutes_cache' = [mutes_cache EXCEPT ![Head(maint.todo)] =
                                  Entry(maint.loaded)]
            /\ maint' = [maint EXCEPT !.pc = "load_blocks", !.loaded = {}]
            /\ UNCHANGED blocks_cache
       ELSE /\ blocks_cache' = [blocks_cache EXCEPT ![Head(maint.todo)] =
                                   Entry(maint.loaded)]
            /\ maint' = IF Tail(maint.todo) = <<>> THEN IdleMaint
                        ELSE [pc |-> "load_mutes", todo |-> Tail(maint.todo),
                              loaded |-> {}]
            /\ UNCHANGED mutes_cache
    /\ UNCHANGED <<classifyVars, resolverVars, deviceVars, apiVars, relStoreVars,
                   use_hashed_storage, upds, maintRuns, lastWrite, filterVars,
                   dispVars, historyVars, firehoseVars>>

\* ------------------------------------------------------------------ filter
IdleFilt == [pc |-> "idle", id |-> 0, author |-> <<>>, kind |-> "",
             dids |-> <<>>, at |-> 1]

\* the events the classifier is driven with in Spec
PipeEvents ==
    {MkEvent(a, CollPost, NoEmbed, <<>>, <<DidA, DidC>>, <<>>, <<>>) :
        a \in Authors}
    \cup {MkEvent(DidX, CollPost, NoEmbed, <<>>, <<DidX>>, <<>>, <<>>),
          MkEvent(DidX, CollPost, NoEmbed, <<>>, <<>>, <<>>, <<ChAt>> \o DidA),
          MkEvent(DidX, CollLike, NoEmbed, <<>>, <<>>, PostUri(DidAB), <<>>)}

\* the events the classifier is driven with in SpecDispatch
DispatchEvents ==
    {MkEvent(DidX, CollPost, NoEmbed, <<>>, <<DidA, DidAB>>, <<>>, <<>>)}

\* the rows of a query result, in id order
RECURSIVE RowsToVec(_)
RowsToVec(rows) ==
    IF rows = {} THEN <<>>
    ELSE LET r == CHOOSE x \in rows : \A y \in rows : x.id <= y.id
         IN <<r>> \o RowsToVec(rows \ {r})

\* the match with the Mention and Reply arms exchanged
should_notify_Swapped(p, notification_type) ==
    CASE notification_type = "Mention" -> p.replies
      [] notification_type = "Reply" -> p.mentions
      [] notification_type = "Like" -> p.likes
      [] notification_type = "Follow" -> p.follows
      [] notification_type = "Repost" -> p.reposts
      [] notification_type = "Quote" -> p.quotes

\* the match on notification_type that reads the preference flag
should_notify(p, notification_type) ==
    CASE notification_type = "Mention" -> p.mentions
      [] notification_type = "Reply" -> p.replies
      [] notification_type = "Like" -> p.likes
      [] notification_type = "Follow" -> p.follows
      [] notification_type = "Repost" -> p.reposts
      [] notification_type = "Quote" -> p.quotes

\* the preference column that belongs to each notification kind
KindFlag == [Mention |-> "mentions", Reply |-> "replies", Like |-> "likes",
             Follow |-> "follows", Repost |-> "reposts", Quote |-> "quotes"]

\* the loop with the is_muted test left out
PassesRelationships_BlockOnly(did, author) == ~is_blocked(did, author)

\* whether the loop over relevant_dids passes a recipient on to its devices
PassesRelationships(did, author) ==
    ~is_muted(did, author) /\ ~is_blocked(did, author)

\* the declarative reading of "structurally relevant": some registered
\* actor is quoted, replied to, mentioned, liked, reposted or followed
StructuralMatch(e, users) ==
    \E u \in users :
       \/ /\ Contains(e.path, CollPost)
          /\ \/ Contains(e.record.embed.uri, u)
             \/ Contains(e.record.embed.inner, u)
             \/ Contains(e.record.reply, u)
             \/ u \in VecToSet(e.record.facets)
       \/ /\ Contains(e.path, CollLike) \/ Contains(e.path, CollRepost)
          /\ Contains(e.record.subject, u)
       \/ /\ Contains(e.path, CollFollow)
          /\ e.record.subject = u

\* event_receiver.recv() up to the call of get_user_devices_batch:
\* the 300 s refresh of registered_users, the early reject, classify_event
FilterTake(event, refresh) ==
    /\ filt.pc = "idle"
    /\ evCount' = evCount + 1
    /\ LET users == IF refresh THEN get_registered_users(devices)
                    ELSE registered_users
           id == evCount + 1
           relevant == \/ VecContains(users, event.author)
                       \/ is_event_relevant_to_users(event, users)
           c == IF relevant THEN classify_event(event, users)
                ELSE NoneResult
       IN /\ registered_users' = users
          /\ usedReg' = usedReg \cup {<<id, u>> : u \in VecToSet(users)}
          /\ unmatched' =
                IF /\ event.author \notin VecToSet(users)
                   /\ ~StructuralMatch(event, VecToSet(users))
                THEN unmatched \cup {id} ELSE unmatched
          /\ filt' = IF c = NoneResult THEN [IdleFilt EXCEPT !.id = id]
                     ELSE [pc |-> "fetch", id |-> id,
                           author |-> event.author, kind |-> c.kind,
                           dids |-> c.dids, at |-> 1]
    /\ devices_map' = <<>>
    /\ tasks' = <<>>
    /\ UNCHANGED <<classifyVars, resolverVars, deviceVars, apiVars, relStoreVars,
                   relCacheVars, relTaskVars, dispVars, enqueued, accepted,
                   suppressed, prefOff, lastPush, firehose_cursor, fh,
                   upstream, delivered, cursorWrites, sup, malformed>>

\* the same, for at most MaxEvents events
FilterRecv(event, refresh) ==
    /\ evCount < MaxEvents
    /\ FilterTake(event, refresh)

\* get_user_devices_batch fails: the error is logged and the loop
\* continues with the next event
FilterFetchErr ==
    /\ filt.pc = "fetch"
    /\ filt' = [IdleFilt EXCEPT !.id = filt.id]
    /\ devices_map' = <<>>
    /\ UNCHANGED <<classifyVars, resolverVars, deviceVars, apiVars, relStoreVars,
                   relCacheVars, relTaskVars, registered_users, tasks,
                   evCount, dispVars, historyVars, firehoseVars>>

\* get_user_devices_batch: the query for one chunk of dids
FilterFetchChunk ==
    /\ filt.pc = "fetch"
    /\ LET last == IF filt.at + ChunkSize - 1 < Len(filt.dids)
                   THEN filt.at + ChunkSize - 1 ELSE Len(filt.dids)
           chunk == SubSeq(filt.dids, filt.at, last)
           rows == {r \in devices : VecContains(chunk, r.did)}
       IN /\ devices_map' = devices_map \o RowsToVec(rows)
          /\ filt' = IF last = Len(filt.dids)
                     THEN [filt EXCEPT !.pc = "check", !.at = 1]
                     ELSE [filt EXCEPT !.at = last + 1]
    /\ UNCHANGED <<classifyVars, resolverVars, deviceVars, apiVars, relStoreVars,
                   relCacheVars, relTaskVars, registered_users, tasks,
                   evCount, dispVars, historyVars, firehoseVars>>

\* one pass of "for did in &relevant_dids": is_muted, is_blocked, and one
\* future pushed per device of devices_map.get(did)
FilterCheck(muteOk, blockOk) ==
    /\ filt.pc = "check"
    /\ LET did == filt.dids[filt.at]
           muted == RelLookupDb(mutes_cache, user_mutes_hashed, user_mutes,
                                did, filt.author, muteOk)
           cache1 == IF muteOk
                     THEN RelLookupCache(mutes_cache, user_mutes, did)
                     ELSE mutes_cache
           blocked == RelLookupDb(blocks_cache, user_blocks_hashed,
                                  user_blocks, did, filt.author, blockOk)
           cache2 == IF blockOk
                     THEN RelLookupCache(blocks_cache, user_blocks, did)
                     ELSE blocks_cache
           devs == SelectSeq(devices_map, LAMBDA r : r.did = did)
       IN /\ mutes_cache' = cache1
          /\ blocks_cache' = IF muted THEN blocks_cache ELSE cache2
          \* the two tests of the loop, on the answers the calls gave
          /\ tasks' = IF IF muteOk /\ blockOk
                         THEN PassesRelationships(did, filt.author)
                         ELSE ~muted /\ ~blocked
                       THEN tasks \o [k \in 1..Len(devs) |->
                                         [dev |-> devs[k], pc |-> "prefs"]]
                       ELSE tasks
          /\ suppressed' = IF muted \/ blocked
                            THEN suppressed \cup {<<filt.id, did>>}
                            ELSE suppressed
          /\ filt' = IF filt.at = Len(filt.dids)
                     THEN [filt EXCEPT !.pc = "join"]
                     ELSE [filt EXCEPT !.at = @ + 1]
    /\ UNCHANGED <<classifyVars, resolverVars, deviceVars, apiVars, relStoreVars,
                   use_hashed_storage, relTaskVars, registered_users,
                   devices_map, evCount, dispVars, enqueued, accepted,
                   prefOff, usedReg, unmatched, lastPush, firehoseVars>>

\* the same with every query succeeding
FilterCheckRecipient == FilterCheck(TRUE, TRUE)

Payload(task) == [eid |-> filt.id, user_did |-> task.dev.did,
                  device_token |-> task.dev.device_token, kind |-> filt.kind]

\* a device future up to should_notify: get_notification_preferences
\* (fetch_one fails when the row is gone) and the flag for the kind
TaskPrefs(k) ==
    /\ filt.pc = "join"
    /\ k \in DOMAIN tasks
    /\ tasks[k].pc = "prefs"
    /\ IF tasks[k].dev.id \notin DOMAIN prefs
       THEN /\ tasks' = [tasks EXCEPT ![k].pc = "done"]
            /\ UNCHANGED prefOff
       ELSE /\ tasks' = [tasks EXCEPT ![k].pc =
                   IF should_notify(prefs[tasks[k].dev.id], filt.kind)
                   THEN "send" ELSE "done"]
            /\ prefOff' = IF prefs[tasks[k].dev.id][KindFlag[filt.kind]]
                           THEN prefOff
                           ELSE prefOff \cup
                                {<<filt.id, tasks[k].dev.did,
                                   tasks[k].dev.device_token>>}
    /\ UNCHANGED <<classifyVars, resolverVars, deviceVars, apiVars, relStoreVars,
                   relCacheVars, relTaskVars, registered_users, filt,
                   devices_map, evCount, dispVars, enqueued, accepted,
                   suppressed, usedReg, unmatched, lastPush, firehoseVars>>

\* a device future whose get_notification_preferences fails: the error
\* is logged and the future ends
TaskPrefsErr(k) ==
    /\ filt.pc = "join"
    /\ k \in DOMAIN tasks
    /\ tasks[k].pc = "prefs"
    /\ tasks' = [tasks EXCEPT ![k].pc = "done"]
    /\ UNCHANGED <<classifyVars, resolverVars, deviceVars, apiVars, relStoreVars,
                   relCacheVars, relTaskVars, registered_users, filt,
                   devices_map, evCount, dispVars, historyVars, firehoseVars>>

\* a test that lets Quote wait for room as well
HighPriority_WithQuote(kind) ==
    kind \in {"Follow", "Reply", "Mention", "Quote"}

\* matches!(notification_type, Follow | Reply | Mention)
HighPriority(kind) == kind \in {"Follow", "Reply", "Mention"}

\* a device future from the capacity check to the first poll of send
TaskSend(k) ==
    /\ filt.pc = "join"
    /\ k \in DOMAIN tasks
    /\ tasks[k].pc = "send"
    /\ IF NotifCap - Len(notifQ) = 0
       THEN /\ tasks' = [tasks EXCEPT ![k].pc =
                   IF HighPriority(filt.kind) THEN "blocked" ELSE "done"]
            /\ UNCHANGED <<notifQ, enqueued>>
       ELSE /\ notifQ' = Append(notifQ, Payload(tasks[k]))
            /\ enqueued' = BagAdd(enqueued, Payload(tasks[k]))
            /\ tasks' = [tasks EXCEPT ![k].pc = "done"]
    /\ UNCHANGED <<classifyVars, resolverVars, deviceVars, apiVars, relStoreVars,
                   relCacheVars, relTaskVars, registered_users, filt,
                   devices_map, evCount, disp, accepted, suppressed, prefOff,
                   usedReg, unmatched, lastPush, firehoseVars>>

\* a device future waiting in timeout(3 s, send): the channel has room
TaskBlockedSend(k) ==
    /\ filt.pc = "join"
    /\ k \in DOMAIN tasks
    /\ tasks[k].pc = "blocked"
    /\ Len(notifQ) < NotifCap
    /\ notifQ' = Append(notifQ, Payload(tasks[k]))
    /\ enqueued' = BagAdd(enqueued, Payload(tasks[k]))
    /\ tasks' = [tasks EXCEPT ![k].pc = "done"]
    /\ UNCHANGED <<classifyVars, resolverVars, deviceVars, apiVars, relStoreVars,
                   relCacheVars, relTaskVars, registered_users, filt,
                   devices_map, evCount, disp, accepted, suppressed, prefOff,
                   usedReg, unmatched, lastPush, firehoseVars>>

\* a send without a timeout: the future waits on
TaskTimeout_Never(k) ==
    /\ filt.pc = "join"
    /\ k \in DOMAIN tasks
    /\ tasks[k].pc = "blocked"
    /\ Len(notifQ) = NotifCap
    /\ UNCHANGED vars

\* a device future waiting in timeout(3 s, send): the timeout elapses
TaskTimeout(k) ==
    /\ filt.pc = "join"
    /\ k \in DOMAIN tasks
    /\ tasks[k].pc = "blocked"
    /\ Len(notifQ) = NotifCap
    /\ tasks' = [tasks EXCEPT ![k].pc = "done"]
    /\ UNCHANGED <<classifyVars, resolverVars, deviceVars, apiVars, relStoreVars,
                   relCacheVars, relTaskVars, registered_users, filt,
                   devices_map, evCount, dispVars, historyVars, firehoseVars>>

\* join_all returns: every device future has completed
FilterJoin ==
    /\ filt.pc = "join"
    /\ \A k \in DOMAIN tasks : tasks[k].pc = "done"
    /\ filt' = [IdleFilt EXCEPT !.id = filt.id]
    /\ tasks' = <<>>
    /\ devices_map' = <<>>
    /\ UNCHANGED <<classifyVars, resolverVars, deviceVars, apiVars, relStoreVars,
                   relCacheVars, relTaskVars, registered_users, evCount,
                   dispVars, historyVars, firehoseVars>>

\* ---------------------------------------------------------------- firehose
\* u64::to_string: the decimal digits, most significant first
RECURSIVE to_string(_)
to_string(n) == IF n < 10 THEN <<n>> ELSE to_string(n \div 10) \o <<n % 10>>

\* the number a decimal string denotes
RECURSIVE ParseSeq(_)
ParseSeq(str) ==
    IF str = <<>> THEN 0
    ELSE 10 * ParseSeq(SubSeq(str, 1, Len(str) - 1)) + str[Len(str)]

NoCursor == <<>>

\* lexicographic order of two strings (the order of the text column)
RECURSIVE TextLess(_, _)
TextLess(a, b) ==
    IF b = <<>> THEN FALSE
    ELSE IF a = <<>> THEN TRUE
    ELSE IF Head(a) # Head(b) THEN Head(a) < Head(b)
    ELSE TextLess(Tail(a), Tail(b))

\* a query that orders by the cursor text instead of the row id
get_last_cursor_ByText(table) ==
    IF table = <<>> THEN NoCursor
    ELSE LET i == CHOOSE k \in 1..Len(table) :
                     \A m \in 1..Len(table) :
                         ~TextLess(table[k].cursor, table[m].cursor)
         IN table[i].cursor

\* get_last_cursor: SELECT cursor FROM firehose_cursor ORDER BY id DESC
\* LIMIT 1 (rows are kept in id order)
get_last_cursor(table) ==
    IF table = <<>> THEN NoCursor ELSE table[Len(table)].cursor

\* update_cursor: INSERT INTO firehose_cursor (cursor, updated_at)
update_cursor(table, cursor) == Append(table, [cursor |-> cursor])

\* RepoSubscription::new(bgs, _cursor): the cursor parameter of the
\* subscribeRepos request that is sent (the url is
\* "wss://{bgs}/xrpc/{NSID}", without a query)
RepoSubscription_new(cursor) == NoCursor

\* com.atproto.sync.subscribeRepos: the seq of the first commit the relay
\* sends on a connection - after the cursor when one is given, otherwise
\* only what is committed after the connection was opened
RelayStart(cursorParam, head) ==
    IF cursorParam = NoCursor THEN head + 1 ELSE ParseSeq(cursorParam) + 1

StartFh == [pc |-> "connecting", reconnect_attempts |-> 0,
            reconnect_delay |-> 1, last_cursor |-> NoCursor,
            cursorParam |-> NoCursor, next |-> 0, epoch |-> 0,
            restarts |-> 0, dbFails |-> 0, pending |-> <<>>]

\* history: the last commit handed to handle_commit, and whether a commit
\* of the same upstream session was passed over before a later one arrived
NoneDelivered == [epoch |-> 0, seq |-> 0, gap |-> FALSE]

\* main after its spawns: waiting in select! for ctrl_c; the API task
\* serves, or has ended in the unwrap of a failed bind
\* (busy: the shutdown was signalled in the middle of a commit)
RunningSup == [pc |-> "running", api |-> "serving", busy |-> FALSE]

NoMalformed == [cause |-> "none", n |-> 0]

AfterCommit(d, f) ==
    [epoch |-> f.epoch, seq |-> f.next,
     gap |-> d.gap \/ (d.epoch = f.epoch /\ f.next > d.seq + 1)]

\* the network commits a record: the relay's head advances
UpstreamCommit ==
    /\ upstream.head < MaxSeq
    /\ upstream' = [upstream EXCEPT !.head = @ + 1]
    /\ UNCHANGED <<classifyVars, resolverVars, deviceVars, apiVars,
                   relStoreVars, relCacheVars, relTaskVars, filterVars,
                   dispVars, historyVars, firehose_cursor, fh, delivered,
                   cursorWrites, sup, eventQ, malformed>>

\* the relay starts a new session whose seq begins again at a lower value;
\* open connections end
UpstreamReset ==
    /\ upstream.epoch < MaxEpochs
    /\ upstream' = [head |-> BaseSeq, epoch |-> upstream.epoch + 1]
    /\ UNCHANGED <<classifyVars, resolverVars, deviceVars, apiVars,
                   relStoreVars, relCacheVars, relTaskVars, filterVars,
                   dispVars, historyVars, firehose_cursor, fh, delivered,
                   cursorWrites, sup, eventQ, malformed>>

\* top of 'outer: get_last_cursor (None when the query fails) and a
\* successful RepoSubscription::new
Connect(dbOk) ==
    /\ fh.pc = "connecting"
    /\ dbOk \/ fh.dbFails < MaxDbFailures
    /\ LET last_cursor == IF dbOk THEN get_last_cursor(firehose_cursor)
                          ELSE NoCursor
           param == RepoSubscription_new(last_cursor)
       IN fh' = [fh EXCEPT !.pc = "streaming",
                           !.last_cursor = last_cursor,
                           !.cursorParam = param,
                           !.next = RelayStart(param, upstream.head),
                           !.epoch = upstream.epoch,
                           !.dbFails = IF dbOk THEN @ ELSE @ + 1]
    /\ UNCHANGED <<classifyVars, resolverVars, deviceVars, apiVars,
                   relStoreVars, relCacheVars, relTaskVars, filterVars,
                   dispVars, historyVars, firehose_cursor, upstream,
                   delivered, cursorWrites, sup, eventQ, malformed>>

\* RepoSubscription::new fails: count the attempt, give up at
\* MAX_RECONNECTS, otherwise double the delay (capped at 60) and sleep
ConnectFail ==
    /\ fh.pc = "connecting"
    /\ fh' = IF fh.reconnect_attempts + 1 >= MAX_RECONNECTS
             THEN [fh EXCEPT !.pc = "failed",
                             !.reconnect_attempts = @ + 1]
             ELSE [fh EXCEPT !.pc = "backoff",
                             !.reconnect_attempts = @ + 1,
                             !.reconnect_delay =
                                 IF @ * 2 < 60 THEN @ * 2 ELSE 60]
    /\ UNCHANGED <<classifyVars, resolverVars, deviceVars, apiVars,
                   relStoreVars, relCacheVars, relTaskVars, filterVars,
                   dispVars, historyVars, firehose_cursor, upstream,
                   delivered, cursorWrites, sup, eventQ, malformed>>

\* tokio::time::sleep(delay) elapses: continue 'outer
BackoffDone ==
    /\ fh.pc = "backoff"
    /\ fh' = [fh EXCEPT !.pc = "connecting"]
    /\ UNCHANGED <<classifyVars, resolverVars, deviceVars, apiVars,
                   relStoreVars, relCacheVars, relTaskVars, filterVars,
                   dispVars, historyVars, firehose_cursor, upstream,
                   delivered, cursorWrites, sup, eventQ, malformed>>

\* the ways one op of a commit can be unusable: a collection outside the
\* four handled ones, a cid whose block is not in the CAR, a block that
\* does not deserialize
OpDefects == {"unknown_collection", "missing_block", "bad_block"}

RECURSIVE Reversed(_)
Reversed(v) == IF v = <<>> THEN <<>> ELSE Append(Reversed(Tail(v)), Head(v))

\* a walk over the ops from the last to the first
WalkOps_Reversed(events) == Reversed(events)

\* for op in &commit.ops: the usable ops in the order of the commit
WalkOps(events) == events

\* a "#commit" frame arrives and handle_commit starts: the CarStore is
\* opened and the ops are walked; events is what remains to be sent for
\* the ops that are usable, defect names an op that was passed over
CommitArrive(events, defect) ==
    /\ fh.pc = "streaming"
    /\ fh.epoch = upstream.epoch
    /\ fh.next <= upstream.head
    /\ defect # "none" => malformed.n < MaxMalformed
    /\ fh' = [fh EXCEPT !.pc = "handling", !.pending = WalkOps(events)]
    /\ malformed' = IF defect = "none" THEN malformed
                    ELSE [cause |-> defect, n |-> malformed.n + 1]
    /\ UNCHANGED <<classifyVars, resolverVars, deviceVars, apiVars,
                   relStoreVars, relCacheVars, relTaskVars, filterVars,
                   dispVars, historyVars, firehose_cursor, upstream,
                   delivered, cursorWrites, sup, eventQ>>

\* the same, for at most MaxEvents events
CommitRecv(events, defect) ==
    /\ evCount + Len(eventQ) + Len(events) <= MaxEvents
    /\ CommitArrive(events, defect)

\* event_sender.send(event).await inside handle_commit: waits for room in
\* the event channel
CommitSend ==
    /\ fh.pc = "handling"
    /\ fh.pending # <<>>
    /\ Len(eventQ) < EventCap
    /\ eventQ' = Append(eventQ, Head(fh.pending))
    /\ fh' = [fh EXCEPT !.pending = Tail(@)]
    /\ UNCHANGED <<classifyVars, resolverVars, deviceVars, apiVars,
                   relStoreVars, relCacheVars, relTaskVars, filterVars,
                   dispVars, historyVars, firehose_cursor, upstream,
                   delivered, cursorWrites, sup, malformed>>

\* a cursor write that does not wait for the ops
OpsDone_Early(pending) == TRUE

\* the loop "for op in &commit.ops" has ended: no event of the commit is
\* left to send
OpsDone(pending) == pending = <<>>

\* the end of handle_commit, whose last statement is update_cursor (the
\* row is not written when the INSERT fails), then the reset of the
\* reconnect counters
HandleCommit(dbOk) ==
    /\ fh.pc = "handling"
    /\ OpsDone(fh.pending)
    /\ dbOk \/ fh.dbFails < MaxDbFailures
    /\ delivered' = AfterCommit(delivered, fh)
    /\ firehose_cursor' =
          IF dbOk THEN update_cursor(firehose_cursor, to_string(fh.next))
          ELSE firehose_cursor
    /\ cursorWrites' =
          IF dbOk THEN Append(cursorWrites,
                              [seq |-> fh.next, epoch |-> fh.epoch])
          ELSE cursorWrites
    /\ fh' = [fh EXCEPT !.pc = "streaming", !.next = @ + 1,
                        !.reconnect_attempts = 0,
                        !.reconnect_delay = 1,
                        !.dbFails = IF dbOk THEN @ ELSE @ + 1]
    /\ UNCHANGED <<classifyVars, resolverVars, deviceVars, apiVars,
                   relStoreVars, relCacheVars, relTaskVars, filterVars,
                   dispVars, historyVars, upstream, sup, eventQ, malformed>>

\* a "#commit" frame that yields nothing: its body does not parse as a
\* Commit (logged, next frame), or CarStore::open fails and handle_commit
\* returns Err before any op and before update_cursor (logged, counters
\* reset, next frame)
SkipFrame(cause) ==
    /\ fh.pc = "streaming"
    /\ fh.epoch = upstream.epoch
    /\ fh.next <= upstream.head
    /\ malformed.n < MaxMalformed
    /\ malformed' = [cause |-> cause, n |-> malformed.n + 1]
    /\ delivered' = IF cause = "bad_car" THEN AfterCommit(delivered, fh)
                    ELSE delivered
    /\ fh' = IF cause = "bad_car"
             THEN [fh EXCEPT !.next = @ + 1, !.reconnect_attempts = 0,
                             !.reconnect_delay = 1]
             ELSE [fh EXCEPT !.next = @ + 1]
    /\ UNCHANGED <<classifyVars, resolverVars, deviceVars, apiVars,
                   relStoreVars, relCacheVars, relTaskVars, filterVars,
                   dispVars, historyVars, firehose_cursor, upstream,
                   cursorWrites, sup, eventQ>>

\* subscription.next() yields Ok(Frame::Error(_)) ("error_frame") or
\* Some(Err(..)) because Frame::try_from failed ("bad_frame") or the
\* socket read failed ("read_error"): break 'inner, back to the top of
\* 'outer
StreamError(cause) ==
    /\ fh.pc = "streaming"
    /\ cause = "bad_frame" => malformed.n < MaxMalformed
    /\ malformed' = IF cause = "bad_frame"
                    THEN [cause |-> cause, n |-> malformed.n + 1]
                    ELSE malformed
    /\ fh' = [fh EXCEPT !.pc = "connecting"]
    /\ UNCHANGED <<classifyVars, resolverVars, deviceVars, apiVars,
                   relStoreVars, relCacheVars, relTaskVars, filterVars,
                   dispVars, historyVars, firehose_cursor, upstream,
                   delivered, cursorWrites, sup, eventQ>>

\* RepoSubscription::next returns None: the peer closed the stream
\* ("closed") or sent a message that is not binary ("non_binary": text,
\* ping, pong, close). The pattern Some(frame_result) of the select! arm
\* does not match, select! disables that arm and goes on waiting for the
\* one arm left, the shutdown one-shot
StreamEnd(cause) ==
    /\ fh.pc = "streaming"
    /\ cause \in {"closed", "non_binary"}
    /\ fh' = [fh EXCEPT !.pc = "parked"]
    /\ UNCHANGED <<classifyVars, resolverVars, deviceVars, apiVars,
                   relStoreVars, relCacheVars, relTaskVars, filterVars,
                   dispVars, historyVars, firehose_cursor, upstream,
                   delivered, cursorWrites, sup, eventQ, malformed>>

\* ctrl_c arrives: main leaves its select!, sends on the shutdown
\* one-shot and waits in join! for the four tasks
CtrlC ==
    /\ sup.pc = "running"
    /\ sup' = [sup EXCEPT !.pc = "joining", !.busy = (fh.pc = "handling")]
    /\ UNCHANGED <<classifyVars, resolverVars, deviceVars, apiVars,
                   relStoreVars, relCacheVars, relTaskVars, filterVars,
                   dispVars, historyVars, firehose_cursor, fh, upstream,
                   delivered, cursorWrites, eventQ, malformed>>

\* the consumer's select! takes the shutdown branch while it sleeps or
\* streams
Shutdown ==
    /\ fh.pc \in {"backoff", "streaming", "parked"}
    /\ sup.pc = "joining"
    /\ fh' = [fh EXCEPT !.pc = "stopped"]
    /\ UNCHANGED <<classifyVars, resolverVars, deviceVars, apiVars,
                   relStoreVars, relCacheVars, relTaskVars, filterVars,
                   dispVars, historyVars, firehose_cursor, upstream,
                   delivered, cursorWrites, sup, eventQ, malformed>>

\* a classifier that ends as soon as the consumer has returned, whatever
\* the event channel still holds
FilterStop_NoDrain ==
    /\ filt.pc = "idle"
    /\ fh.pc \in {"stopped", "failed"}
    /\ filt' = [filt EXCEPT !.pc = "stopped"]
    /\ UNCHANGED <<classifyVars, resolverVars, deviceVars, apiVars,
                   relStoreVars, relCacheVars, relTaskVars,
                   registered_users, devices_map, tasks, evCount, dispVars,
                   historyVars, firehoseVars>>

\* event_receiver.recv() returns None: every sender is dropped (the
\* consumer has returned) and the channel is empty; run_event_filter ends
\* and drops notification_sender
FilterStop ==
    /\ filt.pc = "idle"
    /\ eventQ = <<>>
    /\ fh.pc \in {"stopped", "failed"}
    /\ filt' = [filt EXCEPT !.pc = "stopped"]
    /\ UNCHANGED <<classifyVars, resolverVars, deviceVars, apiVars,
                   relStoreVars, relCacheVars, relTaskVars,
                   registered_users, devices_map, tasks, evCount, dispVars,
                   historyVars, firehoseVars>>

\* notification_receiver.recv() returns None: run_notification_sender ends
DispStop ==
    /\ disp.pc = "idle"
    /\ notifQ = <<>>
    /\ filt.pc = "stopped"
    /\ disp' = [disp EXCEPT !.pc = "stopped"]
    /\ UNCHANGED <<classifyVars, resolverVars, deviceVars, apiVars,
                   relStoreVars, relCacheVars, relTaskVars, filterVars,
                   notifQ, historyVars, firehoseVars>>

\* join!(firehose_handle, filter_handle, apns_handle, api_handle) returns:
\* all four tasks have ended (axum::serve is given no shutdown signal, so
\* the API task ends only through its failed bind)
MainJoin ==
    /\ sup.pc = "joining"
    /\ fh.pc \in {"stopped", "failed"}
    /\ filt.pc = "stopped"
    /\ disp.pc = "stopped"
    /\ sup.api = "failed"
    /\ sup' = [sup EXCEPT !.pc = "exited"]
    /\ UNCHANGED <<classifyVars, resolverVars, deviceVars, apiVars,
                   relStoreVars, relCacheVars, relTaskVars, filterVars,
                   dispVars, historyVars, firehose_cursor, fh, upstream,
                   delivered, cursorWrites, eventQ, malformed>>

\* the process is started again: main and run_firehose_consumer from their
\* first lines
Restart ==
    /\ fh.pc \in {"stopped", "failed"}
    /\ fh.restarts < MaxRestarts
    /\ fh' = [StartFh EXCEPT !.restarts = fh.restarts + 1,
                             !.dbFails = fh.dbFails]
    /\ sup' = RunningSup
    /\ UNCHANGED <<classifyVars, resolverVars, deviceVars, apiVars,
                   relStoreVars, relCacheVars, relTaskVars, filterVars,
                   dispVars, historyVars, firehose_cursor, upstream,
                   delivered, cursorWrites, eventQ, malformed>>

\* ----------------------------------------------------------- post resolver
PostUris == {"at://u1", "at://u2"}

\* app.bsky.feed.getPosts: the (already short) text upstream holds per uri
\* the uris of a burst of MaxPending lookups
BatchUri(k) == "at://p" \o ToString(k)
BatchUris == {BatchUri(k) : k \in 1..MaxPending}

UpstreamText == [u \in PostUris \cup BatchUris |->
                    IF u = "at://u1" THEN "text one"
                    ELSE IF u = "at://u2" THEN "text two"
                    ELSE "text of " \o u]

CircuitOpenText == "Content temporarily unavailable"
NoText == ""

OkText(t) == [ok |-> TRUE, text |-> t]
ErrResult == [ok |-> FALSE, text |-> ""]

\* what one upstream request can come to: 2xx with the post, 2xx with an
\* empty posts array, 2xx with a body that is no GetPostsResponse, a
\* non-2xx status, no response
UpstreamOutcomes == {"ok", "empty", "bad_json", "status", "transport"}

\* CircuitBreaker of the circuit_breaker crate as the PostResolver uses it:
\* {Closed, Open, HalfOpen} with a failure and a success counter
ClosedBreaker == [state |-> "Closed", failures |-> 0, successes |-> 0]

\* handle_failure: the failure_threshold-th consecutive failure opens the
\* breaker; a failure in the half-open window opens it again
handle_failure(b) ==
    CASE b.state = "Closed" ->
            IF b.failures + 1 >= failure_threshold
            THEN [state |-> "Open", failures |-> 0, successes |-> 0]
            ELSE [b EXCEPT !.failures = @ + 1]
      [] b.state = "HalfOpen" ->
            [state |-> "Open", failures |-> 0, successes |-> 0]
      [] OTHER -> b

\* handle_success: ends a run of failures; the success_threshold-th
\* success of the half-open window closes the breaker
handle_success(b) ==
    CASE b.state = "Closed" -> [b EXCEPT !.failures = 0]
      [] b.state = "HalfOpen" ->
            IF b.successes + 1 >= success_threshold THEN ClosedBreaker
            ELSE [b EXCEPT !.successes = @ + 1]
      [] OTHER -> b

\* the handle_success / handle_failure calls the resolver makes for one
\* response: handle_success as soon as the status is 2xx, handle_failure
\* when the body then fails to parse, on a non-2xx status and on a
\* transport error
RecordOutcome(b, outcome) ==
    CASE outcome \in {"ok", "empty"} -> handle_success(b)
      [] outcome = "bad_json" -> handle_failure(handle_success(b))
      [] OTHER -> handle_failure(b)

\* fetch_post_from_network_individual
fetch_post_from_network_individual(b, uri, outcome) ==
    IF b.state = "Open"
    THEN [b |-> b, result |-> OkText(CircuitOpenText), issued |-> FALSE]
    ELSE [b |-> RecordOutcome(b, outcome),
          result |-> IF outcome = "ok" THEN OkText(UpstreamText[uri])
                     ELSE ErrResult,
          issued |-> TRUE]

\* fetch_posts_batch: found are the uris the response has posts for
fetch_posts_batch(b, uris, outcome, found) ==
    IF b.state = "Open"
    THEN [b |-> b, err |-> FALSE, issued |-> FALSE,
          results |-> [u \in uris |-> CircuitOpenText]]
    ELSE [b |-> RecordOutcome(b, outcome), err |-> outcome # "ok",
          issued |-> TRUE,
          results |-> IF outcome = "ok"
                      THEN [u \in found |-> UpstreamText[u]]
                      ELSE [u \in {} |-> NoText]]

\* no fetch has returned for upText
NoFetch == [path |-> "none", text |-> <<>>]

NewLookup == [uri |-> "", pc |-> "new", result |-> ErrResult,
              proc |-> "none", after |-> FALSE]

otherVars == <<classifyVars, deviceVars, apiVars, relStoreVars,
               relCacheVars, relTaskVars, filterVars, dispVars,
               historyVars, firehoseVars, hReq, hOut, upText, gotText,
               hashIn, hashOut, expiryVars>>

\* the breaker after a call, with the history of consecutive failed
\* upstream calls and of re-closing
BreakerStep(r) ==
    /\ api_circuit_breaker' = r.b
    /\ failStreak' = IF ~r.issued THEN failStreak
                     ELSE IF r.failed
                     THEN (IF failStreak < failure_threshold
                           THEN failStreak + 1 ELSE failStreak)
                     ELSE 0
    /\ reclosed' = IF r.b.state = "Open" THEN FALSE
                   ELSE IF /\ api_circuit_breaker.state = "HalfOpen"
                           /\ r.b.state = "Closed"
                   THEN TRUE ELSE reclosed

Finish(l, result) == [l EXCEPT !.pc = "done", !.result = result]

\* get_post_content up to the wait on the one-shot: memory tier, then
\* persistent tier, then request_queue.insert(uri, sender), which drops
\* the sender an earlier call had queued for the same uri. lookups[i] is
\* the i-th of the callers that can be inside get_post_content at once:
\* it holds the call in progress or the call that returned last
GetPostContent(i, uri) ==
    /\ lookups[i].pc \in {"new", "done"}
    /\ lookups[i].proc = "none"
    /\ \A u \in DOMAIN request_queue : request_queue[u] # i
    /\ LET l == [NewLookup EXCEPT !.uri = uri,
                    !.after = reclosed
                              /\ api_circuit_breaker.state = "Closed"]
           old == request_queue[uri]
       IN IF post_memory_cache[uri] # NoText
          THEN /\ lookups' = [lookups EXCEPT
                     ![i] = Finish(l, OkText(post_memory_cache[uri]))]
               /\ UNCHANGED <<post_memory_cache, request_queue>>
          ELSE IF post_cache[uri] # NoText
          THEN /\ lookups' = [lookups EXCEPT
                     ![i] = Finish(l, OkText(post_cache[uri]))]
               /\ post_memory_cache' =
                     [post_memory_cache EXCEPT ![uri] = post_cache[uri]]
               /\ UNCHANGED request_queue
          ELSE /\ request_queue' = [request_queue EXCEPT ![uri] = i]
               /\ lookups' = [j \in DOMAIN lookups |->
                     IF j = i THEN [l EXCEPT !.pc = "queued"]
                     ELSE IF j = old /\ lookups[j].pc = "queued"
                     THEN [lookups[j] EXCEPT !.pc = "individual"]
                     ELSE lookups[j]]
               /\ UNCHANGED post_memory_cache
    /\ UNCHANGED <<otherVars, api_circuit_breaker, post_cache, cacheJobs,
                   failStreak, reclosed>>

\* let max_batch_size = 25
max_batch_size == 25

RECURSIVE KSubsets(_, _)
KSubsets(S, k) ==
    IF k = 0 THEN {{}}
    ELSE UNION {{T \cup {e} : T \in KSubsets(S \ {e}, k - 1)} : e \in S}

\* a drain that takes every key
TakeKeys_All(keys, n) == {keys}

\* queue.keys().cloned().take(max_batch_size): the first n keys in the
\* HashMap's iteration order, which is any order
TakeKeys(keys, n) ==
    IF Cardinality(keys) <= n THEN {keys}
    ELSE {keys \ R : R \in KSubsets(keys, Cardinality(keys) - n)}

PendingUris == {u \in DOMAIN request_queue : request_queue[u] # 0}

\* one pass of run_request_processor with the keys it takes: remove them
\* from request_queue, one fetch_posts_batch call, spawn update_caches for
\* the results, answer the callers whose uri is in the results and spawn
\* an individual fetch for every other one
ProcessRound(uris, outcome, found) ==
    LET r == fetch_posts_batch(api_circuit_breaker, uris, outcome, found)
        waits(j) == {u \in uris : request_queue[u] = j}
    IN /\ uris # {}
       /\ found \subseteq uris
       /\ outcome # "ok" => found = {}
       /\ BreakerStep([b |-> r.b, issued |-> r.issued, failed |-> r.err])
       /\ request_queue' = [u \in DOMAIN request_queue |->
                               IF u \in uris THEN 0 ELSE request_queue[u]]
       /\ cacheJobs' = cacheJobs \cup
                          {<<u, r.results[u]>> : u \in DOMAIN r.results}
       /\ lookups' = [j \in DOMAIN lookups |->
             IF waits(j) = {} THEN lookups[j]
             ELSE IF lookups[j].uri \in DOMAIN r.results
             THEN (IF lookups[j].pc = "queued"
                   THEN Finish(lookups[j],
                               OkText(r.results[lookups[j].uri]))
                   ELSE lookups[j])
             ELSE [lookups[j] EXCEPT !.proc = "fetching"]]
       /\ UNCHANGED <<otherVars, post_memory_cache, post_cache>>

\* one pass of run_request_processor
ProcessBatch(outcome, found) ==
    \E uris \in TakeKeys(PendingUris, max_batch_size) :
       ProcessRound(uris, outcome, found)

\* the task the processor spawned for one uri:
\* fetch_post_from_network_individual, on Ok update_caches (awaited) and
\* then the answer to the caller, if it still waits
SpawnedFetch(i, outcome) ==
    LET l == lookups[i]
        r == fetch_post_from_network_individual(api_circuit_breaker,
                                                l.uri, outcome)
    IN /\ l.proc = "fetching"
       /\ BreakerStep([b |-> r.b, issued |-> r.issued,
                       failed |-> ~r.result.ok])
       /\ IF r.result.ok
          THEN /\ post_cache' = [post_cache EXCEPT ![l.uri] = r.result.text]
               /\ post_memory_cache' =
                     [post_memory_cache EXCEPT ![l.uri] = r.result.text]
          ELSE UNCHANGED <<post_cache, post_memory_cache>>
       /\ lookups' = [lookups EXCEPT ![i] =
             IF l.pc = "queued"
             THEN [Finish(l, r.result) EXCEPT !.proc = "none"]
             ELSE [l EXCEPT !.proc = "none"]]
       /\ UNCHANGED <<otherVars, request_queue, cacheJobs>>

\* a receiver that waits without a timeout
LookupTimeout_Never(i) ==
    /\ lookups[i].pc = "queued"
    /\ UNCHANGED vars

\* the task that holds the caller's sender ends without sending (it
\* panics): the receiver yields Err and get_post_content takes the
\* "Batch processor disappeared" arm
SenderDropped(i) ==
    /\ lookups[i].pc = "queued"
    /\ lookups[i].proc = "fetching"
    /\ lookups' = [lookups EXCEPT ![i].pc = "individual",
                                  ![i].proc = "none"]
    /\ UNCHANGED <<otherVars, api_circuit_breaker, post_memory_cache,
                   post_cache, request_queue, cacheJobs, failStreak,
                   reclosed>>

\* timeout(150 ms, receiver) elapses in get_post_content
LookupTimeout(i) ==
    /\ lookups[i].pc = "queued"
    /\ lookups' = [lookups EXCEPT ![i].pc = "individual"]
    /\ UNCHANGED <<otherVars, api_circuit_breaker, post_memory_cache,
                   post_cache, request_queue, cacheJobs, failStreak,
                   reclosed>>

\* fetch_and_cache_individual in the caller: on Ok update_caches is
\* spawned and the text returned
CallerFetch(i, outcome) ==
    LET l == lookups[i]
        r == fetch_post_from_network_individual(api_circuit_breaker,
                                                l.uri, outcome)
    IN /\ l.pc = "individual"
       /\ BreakerStep([b |-> r.b, issued |-> r.issued,
                       failed |-> ~r.result.ok])
       /\ cacheJobs' = IF r.result.ok
                       THEN cacheJobs \cup {<<l.uri, r.result.text>>}
                       ELSE cacheJobs
       /\ lookups' = [lookups EXCEPT ![i] = Finish(l, r.result)]
       /\ UNCHANGED <<otherVars, post_memory_cache, post_cache,
                      request_queue>>

\* a spawned update_caches: the upsert into post_cache, then the memory
\* tier
CacheWrite(job) ==
    /\ job \in cacheJobs
    /\ cacheJobs' = cacheJobs \ {job}
    /\ post_cache' = [post_cache EXCEPT ![job[1]] = job[2]]
    /\ post_memory_cache' = [post_memory_cache EXCEPT ![job[1]] = job[2]]
    /\ UNCHANGED <<otherVars, api_circuit_breaker, request_queue, lookups,
                   failStreak, reclosed>>

\* open_duration has passed since the breaker opened: state() no longer
\* answers Open and the next calls are trial calls
OpenElapsed ==
    /\ api_circuit_breaker.state = "Open"
    /\ api_circuit_breaker' = [api_circuit_breaker EXCEPT
                                  !.state = "HalfOpen"]
    /\ UNCHANGED <<otherVars, post_memory_cache, post_cache, request_queue,
                   lookups, cacheJobs, failStreak, reclosed>>

ResolverIdle ==
    /\ api_circuit_breaker = ClosedBreaker
    /\ post_memory_cache = [u \in PostUris |-> NoText]
    /\ post_cache = [u \in PostUris |-> NoText]
    /\ request_queue = [u \in PostUris |-> 0]
    /\ lookups = [i \in 1..MaxInFlight |-> NewLookup]
    /\ cacheJobs = {}
    /\ failStreak = 0
    /\ reclosed = FALSE

PostsIdle ==
    /\ ResolverIdle
    /\ upText = <<>>
    /\ gotText = NoFetch
    /\ CryptoIdle

\* ------------------------------------------------------------ DID resolver
ChColon == 33       \* ':'
ChWide == 200       \* a character whose UTF-8 encoding has two bytes
MethodPlc == <<70, ChColon, 71, ChColon>>   \* "did:plc:"
MethodWeb == <<70, ChColon, 72, ChColon>>   \* "did:web:"
MethodKey == <<70, ChColon, 73, ChColon>>   \* "did:key:"
ProfileSep == <<41>>                        \* "/profile/"
UserPrefix == <<42>>                        \* "user_"

starts_with(s, p) == Len(s) >= Len(p) /\ SubSeq(s, 1, Len(p)) = p

\* str::len: the length in bytes
ByteLen(s) == Len(s) + Cardinality({i \in 1..Len(s) : s[i] >= 128})

\* the leading characters of s that end within its first n bytes
CharsWithin(s, n) ==
    LET fits == {k \in 0..Len(s) : ByteLen(SubSeq(s, 1, k)) <= n}
    IN SubSeq(s, 1, CHOOSE k \in fits : \A j \in fits : j <= k)

\* did.split(':').last()
RECURSIVE LastPart(_)
LastPart(s) ==
    IF ~VecContains(s, ChColon) THEN s
    ELSE LastPart(Tail(s))

Panicked == <<0>>

\* did_to_fallback_handle: "user_" and the last part, cut to its first 8
\* bytes when it is longer; &last_part[0..8] panics when byte 8 is not a
\* character boundary
did_to_fallback_handle(did) ==
    LET last_part == LastPart(did)
        head == CharsWithin(last_part, 8)
    IN IF ByteLen(last_part) > 8
       THEN (IF ByteLen(head) = 8 THEN UserPrefix \o head ELSE Panicked)
       ELSE UserPrefix \o last_part

\* name.split("/profile/").collect()[1]
RECURSIVE AfterSep(_, _)
AfterSep(s, sep) ==
    IF starts_with(s, sep)
    THEN LET rest == SubSeq(s, Len(sep) + 1, Len(s))
         IN IF Contains(rest, sep)
            THEN SubSeq(rest, 1,
                        CHOOSE k \in 0..Len(rest) :
                           /\ starts_with(SubSeq(rest, k + 1, Len(rest)),
                                          sep)
                           /\ \A m \in 0..(k - 1) :
                                 ~starts_with(SubSeq(rest, m + 1,
                                                     Len(rest)), sep))
            ELSE rest
    ELSE AfterSep(Tail(s), sep)

\* extract_handle_from_document: the first alsoKnownAs name that starts
\* with "at://" or contains "/profile/", else the fallback of document.id
RECURSIVE HandleOfNames(_, _)
HandleOfNames(aka, id) ==
    IF aka = <<>> THEN did_to_fallback_handle(id)
    ELSE IF starts_with(Head(aka), Scheme)
    THEN SubSeq(Head(aka), Len(Scheme) + 1, Len(Head(aka)))
    ELSE IF Contains(Head(aka), ProfileSep)
    THEN AfterSep(Head(aka), ProfileSep)
    ELSE HandleOfNames(Tail(aka), id)

extract_handle_from_document(document) ==
    HandleOfNames(document.also_known_as, document.id)

NoDocument == [id |-> <<>>, also_known_as |-> <<>>, fetched |-> FALSE]

\* resolve_did_network: plc and web documents are fetched (net gives the
\* document, or NoDocument when the request or its parsing fails), any
\* other method is an error; the result is the handle, or <<>> for Err
resolve_did_network(did, net) ==
    IF (starts_with(did, MethodPlc) \/ starts_with(did, MethodWeb))
       /\ net[did].fetched
    THEN extract_handle_from_document(net[did])
    ELSE <<>>

\* one future of get_handles_bulk: resolve_did_network, and on Err the
\* fallback handle
ResolveOrFallback(did, net) ==
    IF resolve_did_network(did, net) # <<>>
    THEN resolve_did_network(did, net)
    ELSE did_to_fallback_handle(did)

\* get_handles_bulk: memory tier, then get_from_db_cache_bulk for what is
\* missing (skipped when the query fails), then one network resolution for
\* each id still missing; a panic in a future ends the call
get_handles_bulk(req) ==
    LET ids == VecToSet(req.dids)
        fromMem == {d \in ids : d \in DOMAIN req.mem}
        fromDb == IF req.dbOk
                  THEN {d \in ids \ fromMem : d \in DOMAIN req.db}
                  ELSE {}
        still_missing == ids \ (fromMem \cup fromDb)
        result == [d \in ids |->
                      IF d \in fromMem THEN req.mem[d]
                      ELSE IF d \in fromDb THEN req.db[d]
                      ELSE ResolveOrFallback(d, req.net)]
    IN IF \E d \in still_missing : result[d] = Panicked
       THEN [status |-> "panic", map |-> <<>>]
       ELSE [status |-> "ok", map |-> result]

NoRequest == [dids |-> <<>>, mem |-> <<>>, db |-> <<>>, dbOk |-> TRUE,
              net |-> <<>>]
PendingHandles == [status |-> "pending", map |-> <<>>]

\* ------------------------------------------------ cache tiers and expiry
\* the handle cache of DidResolver (memory_cache, did_cache) and the post
\* cache of PostResolver (memory_cache, post_cache)
Caches == {"did_cache", "post_cache"}
CacheKeys == {"k1", "k2"}
MaxNow == 4         \* the clock stops here
Ttl == 2            \* self.ttl and the lifetime of a row, in ticks

NoCachedInfo == [present |-> FALSE, value |-> 0, expires_at |-> 0]
CachedInfo(value, expires_at) ==
    [present |-> TRUE, value |-> value, expires_at |-> expires_at]

NoCacheOp == [op |-> "none", c |-> "", key |-> "", at |-> 0,
              hit |-> NoCachedInfo, before |-> <<>>, after |-> <<>>]
IdleTask == [reader |-> "", sweeper |-> FALSE]

restVars == <<classifyVars, deviceVars, apiVars, relStoreVars,
              relCacheVars, relTaskVars, filterVars, dispVars,
              historyVars, firehoseVars, api_circuit_breaker,
              post_memory_cache, post_cache, request_queue, lookups,
              cacheJobs, failStreak, reclosed, hReq, hOut, upText, gotText,
              hashIn, hashOut>>

\* cached.expires_at > Instant::now() / WHERE expires_at > NOW()
Unexpired_Inclusive(e, t) == e.present /\ e.expires_at >= t
Unexpired(e, t) == e.present /\ e.expires_at > t

\* cache.retain(|_, v| v.expires_at > now) /
\* DELETE ... WHERE expires_at <= NOW()
Retain(tier, t) ==
    [k \in DOMAIN tier |-> IF Unexpired(tier[k], t) THEN tier[k] ELSE NoCachedInfo]

\* time passes
Tick ==
    /\ now < MaxNow
    /\ now' = now + 1
    /\ UNCHANGED <<restVars, memory_cache, db_cache, cacheTask, cacheOp>>

\* get_from_memory_cache at the start of get_handle, get_handles_bulk and
\* get_post_content; a miss goes on to the persistent tier
GetFromMemoryCache(c, k) ==
    /\ cacheTask[c].reader = ""
    /\ LET e == memory_cache[c][k]
           hit == IF Unexpired(e, now) THEN e ELSE NoCachedInfo
       IN /\ cacheOp' = [NoCacheOp EXCEPT !.op = "get_from_memory_cache",
                            !.c = c, !.key = k, !.at = now, !.hit = hit]
          /\ cacheTask' = [cacheTask EXCEPT
                ![c].reader = IF hit = NoCachedInfo THEN k ELSE ""]
    /\ UNCHANGED <<restVars, now, memory_cache, db_cache>>

\* get_from_db_cache after a memory miss; a row found is copied into the
\* memory tier by update_memory_cache, with a lifetime of its own
GetFromDbCache(c) ==
    /\ cacheTask[c].reader # ""
    /\ LET k == cacheTask[c].reader
           e == db_cache[c][k]
           hit == IF Unexpired(e, now) THEN e ELSE NoCachedInfo
       IN /\ cacheOp' = [NoCacheOp EXCEPT !.op = "get_from_db_cache",
                            !.c = c, !.key = k, !.at = now, !.hit = hit]
          /\ memory_cache' =
                IF hit = NoCachedInfo THEN memory_cache
                ELSE [memory_cache EXCEPT
                         ![c][k] = CachedInfo(e.value, now + Ttl)]
    /\ cacheTask' = [cacheTask EXCEPT ![c].reader = ""]
    /\ UNCHANGED <<restVars, now, db_cache>>

\* update_caches: the upsert of the row, then update_memory_cache
UpdateCaches(c, k) ==
    /\ db_cache' = [db_cache EXCEPT ![c][k] = CachedInfo(now, now + Ttl)]
    /\ memory_cache' =
          [memory_cache EXCEPT ![c][k] = CachedInfo(now, now + Ttl)]
    /\ cacheOp' = [NoCacheOp EXCEPT !.op = "update_caches", !.c = c,
                      !.key = k, !.at = now]
    /\ UNCHANGED <<restVars, now, cacheTask>>

\* cleanup_expired, first half: retain on the memory tier
CleanupMemory(c) ==
    /\ ~cacheTask[c].sweeper
    /\ memory_cache' = [memory_cache EXCEPT ![c] = Retain(memory_cache[c], now)]
    /\ cacheTask' = [cacheTask EXCEPT ![c].sweeper = TRUE]
    /\ cacheOp' = [NoCacheOp EXCEPT !.op = "cleanup_memory", !.c = c,
                      !.at = now, !.before = memory_cache[c],
                      !.after = Retain(memory_cache[c], now)]
    /\ UNCHANGED <<restVars, now, db_cache>>

\* cleanup_expired, second half: the DELETE on the persistent tier, which
\* may fail
CleanupDb(c, ok) ==
    /\ cacheTask[c].sweeper
    /\ cacheTask' = [cacheTask EXCEPT ![c].sweeper = FALSE]
    /\ IF ok
       THEN /\ db_cache' = [db_cache EXCEPT ![c] = Retain(db_cache[c], now)]
            /\ cacheOp' = [NoCacheOp EXCEPT !.op = "cleanup_db", !.c = c,
                              !.at = now, !.before = db_cache[c],
                              !.after = Retain(db_cache[c], now)]
       ELSE /\ cacheOp' = [NoCacheOp EXCEPT !.op = "cleanup_failed", !.c = c,
                              !.at = now]
            /\ UNCHANGED db_cache
    /\ UNCHANGED <<restVars, now, memory_cache>>

ExpiryIdle ==
    /\ now = 0
    /\ memory_cache = [c \in Caches |-> [k \in CacheKeys |-> NoCachedInfo]]
    /\ db_cache = [c \in Caches |-> [k \in CacheKeys |-> NoCachedInfo]]
    /\ cacheTask = [c \in Caches |-> IdleTask]
    /\ cacheOp = NoCacheOp

HandlesIdle ==
    /\ hReq = NoRequest
    /\ ExpiryIdle
    /\ hOut = [status |-> "ok", map |-> <<>>]

\* a call of get_handles_bulk returns
GetHandlesBulk ==
    /\ hOut = PendingHandles
    /\ hOut' = get_handles_bulk(hReq)
    /\ UNCHANGED <<classifyVars, deviceVars, apiVars, relStoreVars,
                   relCacheVars, relTaskVars, filterVars, dispVars,
                   historyVars, firehoseVars, api_circuit_breaker,
                   post_memory_cache, post_cache, request_queue, lookups,
                   cacheJobs, failStreak, reclosed, hReq, upText, gotText,
                   hashIn, hashOut, expiryVars>>

\* ---------------------------------------------- post text truncation
TruncateAt == 140   \* post.record.text.len() > 140
KeepBytes == 137    \* &post.record.text[..137]
ChLetter == 65      \* a character whose UTF-8 encoding has one byte
Dots == <<ChDot, ChDot, ChDot>>

\* the cut of a text of more than 140 characters to its first 137
\* characters
TruncateText_Chars(text) ==
    IF Len(text) > TruncateAt
    THEN SubSeq(text, 1, KeepBytes) \o Dots
    ELSE text

\* if text.len() > 140 { format!("{}...", &text[..137]) } else { text }:
\* len() counts bytes, and the slice panics when byte 137 is not a
\* character boundary
TruncateText(text) ==
    LET head == CharsWithin(text, KeepBytes)
    IN IF ByteLen(text) > TruncateAt
       THEN (IF ByteLen(head) = KeepBytes THEN head \o Dots ELSE Panicked)
       ELSE text

\* fetch_posts_batch, response parsed: the text stored for one post
BatchText(text) == TruncateText(text)

\* fetch_post_from_network_individual, response parsed: the text returned
IndividualText(text) == TruncateText(text)

\* a post text of n characters, w of them two bytes wide, at its start
\* or at its end
MkText(n, w, wideFirst) ==
    [k \in 1..n |-> IF (wideFirst /\ k <= w) \/ (~wideFirst /\ k > n - w)
                    THEN ChWide ELSE ChLetter]

PostTexts ==
    {MkText(n, w, f) : n \in MinTextLen..MaxTextLen,
                       w \in 0..MaxWide \cup {70}, f \in BOOLEAN}

\* fetch_posts_batch answers for the post with text upText
FetchBatchText ==
    /\ gotText = NoFetch
    /\ upText \in PostTexts
    /\ gotText' = [path |-> "batch", text |-> BatchText(upText)]
    /\ UNCHANGED <<classifyVars, deviceVars, apiVars, relStoreVars,
                   relCacheVars, relTaskVars, filterVars, dispVars,
                   historyVars, firehoseVars, api_circuit_breaker,
                   post_memory_cache, post_cache, request_queue, lookups,
                   cacheJobs, failStreak, reclosed, hReq, hOut, upText,
                   hashIn, hashOut, expiryVars>>

\* fetch_post_from_network_individual answers for the post with text
\* upText
FetchIndividualText ==
    /\ gotText = NoFetch
    /\ upText \in PostTexts
    /\ gotText' = [path |-> "individual", text |-> IndividualText(upText)]
    /\ UNCHANGED <<classifyVars, deviceVars, apiVars, relStoreVars,
                   relCacheVars, relTaskVars, filterVars, dispVars,
                   historyVars, firehoseVars, api_circuit_breaker,
                   post_memory_cache, post_cache, request_queue, lookups,
                   cacheJobs, failStreak, reclosed, hReq, hOut, upText,
                   hashIn, hashOut, expiryVars>>

\* ----------------------------------------------------------- initial states
NoEvent == MkEvent(<<>>, <<>>, NoEmbed, <<>>, <<>>, <<>>, <<>>)

ClassifyIdle ==
    /\ cEvent = NoEvent
    /\ cUsers = <<>>
    /\ cOut = NoneResult

SupIdle ==
    /\ sup = RunningSup
    /\ eventQ = <<>>
    /\ malformed = NoMalformed

FirehoseIdle ==
    /\ firehose_cursor = <<>>
    /\ fh = [StartFh EXCEPT !.pc = "stopped"]
    /\ upstream = [head |-> BaseSeq, epoch |-> 1]
    /\ delivered = NoneDelivered
    /\ cursorWrites = <<>>
    /\ SupIdle

\* contents of user_devices and notification_preferences when the process
\* starts
InitialDevices ==
    {{[id |-> 1, did |-> DidA, device_token |-> "t1"]},
     {[id |-> 1, did |-> DidA, device_token |-> "t1"],
      [id |-> 2, did |-> DidAB, device_token |-> "t2"]},
     {[id |-> 1, did |-> DidA, device_token |-> "t1"],
      [id |-> 2, did |-> DidA, device_token |-> "t2"]}}
InitialPrefs(devs) ==
    [id \in {r.id : r \in devs} |->
        IF id = 2 /\ \A r \in devs : r.did = DidA
        THEN MentionsOff ELSE DefaultPrefs]

\* contents of user_mutes / user_blocks when the process starts
InitialMutes == {[u \in RegDids |-> {}],
                 [u \in RegDids |-> IF u = DidA THEN {DidC} ELSE {}]}
InitialBlocks == {[u \in RegDids |-> {}]}

Larger(a, b) == IF a > b THEN a ELSE b

DevicesInit ==
    /\ devices \in InitialDevices
    /\ prefs = InitialPrefs(devices)
    /\ nextId = Cardinality(devices) + 1
    /\ regs = [i \in 1..Larger(MaxRegs, MaxApiCalls) |-> NewReq]
    /\ prefUpdates = 0

RelTablesInit(hashedModes, mutes) ==
    /\ use_hashed_storage \in hashedModes
    /\ user_mutes \in mutes
    /\ user_blocks \in InitialBlocks
    /\ user_mutes_hashed = [u \in RegDids |->
           IF use_hashed_storage THEN HashSet(user_mutes[u], u) ELSE {}]
    /\ user_blocks_hashed = [u \in RegDids |->
           IF use_hashed_storage THEN HashSet(user_blocks[u], u) ELSE {}]
    /\ audit_log = <<>>
    /\ mutes_cache = [u \in RegDids |-> NoEntry]
    /\ blocks_cache = [u \in RegDids |-> NoEntry]
    /\ maint = IdleMaint
    /\ maintRuns = 0
    /\ lastWrite = [u \in RegDids |-> NoCommit]

RelInit(hashedModes, mutes) ==
    /\ RelTablesInit(hashedModes, mutes)
    /\ upds = [i \in 1..Larger(MaxWriters, MaxApiCalls) |-> NewUpd]

PipelineIdle ==
    /\ registered_users = get_registered_users(devices)
    /\ filt = IdleFilt
    /\ devices_map = <<>>
    /\ tasks = <<>>
    /\ evCount = 0
    /\ notifQ = <<>>
    /\ disp = IdleDisp
    /\ enqueued = EmptyBag
    /\ accepted = EmptyBag
    /\ suppressed = {}
    /\ prefOff = {}
    /\ usedReg = {}
    /\ unmatched = {}
    /\ lastPush = NoPush

PipelineInit ==
    /\ PipelineIdle
    /\ PostsIdle
    /\ HandlesIdle

Init ==
    /\ ClassifyIdle
    /\ FirehoseIdle
    /\ DevicesInit
    /\ \A r \in devices : r.did = DidA
    /\ RelInit(BOOLEAN, InitialMutes)
    /\ PipelineInit

\* the process starts with no mutes; USE_HASHED_RELATIONSHIPS at its default
InitDispatch ==
    /\ ClassifyIdle
    /\ FirehoseIdle
    /\ DevicesInit
    /\ Cardinality(devices) = 2
    /\ RelInit({TRUE}, {[u \in RegDids |-> {}]})
    /\ PipelineInit

\* every step of run_event_filter after an event has been received
FilterSteps ==
    \/ FilterFetchChunk
    \/ FilterCheckRecipient
    \/ \E k \in 1..Len(tasks) : TaskPrefs(k)
    \/ \E k \in 1..Len(tasks) : TaskSend(k)
    \/ \E k \in 1..Len(tasks) : TaskBlockedSend(k)
    \/ \E k \in 1..Len(tasks) : TaskTimeout(k)
    \/ FilterJoin

\* requests the management API has accepted so far
ApiCallsUsed ==
    Cardinality({i \in DOMAIN regs : regs[i].pc # "new"})
    + Cardinality({i \in DOMAIN upds : upds[i].pc # "new"})
    + prefUpdates

\* POST /register of a device of DidC
RegSteps ==
    \/ /\ ApiCallsUsed < MaxApiCalls
       /\ \E i \in DOMAIN regs, token \in Tokens : RegSelect(i, DidC, token)
    \/ \E i \in DOMAIN regs : RegWrite(i)

\* PUT /relationships of DidA
UpdSteps ==
    \/ /\ ApiCallsUsed < MaxApiCalls
       /\ \E i \in DOMAIN upds, m \in MuteChoices, b \in BlockChoices :
             UpdCommit(i, DidA, "t1", m, b)
    \/ \E i \in DOMAIN upds : UpdCacheMutes(i)
    \/ \E i \in DOMAIN upds : UpdCacheBlocks(i)

\* PUT /preferences of DidA
PrefSteps ==
    /\ ApiCallsUsed < MaxApiCalls
    /\ \E flags \in PrefChoices : UpdatePreferences(DidA, flags)

\* the classifier with the management API acting concurrently; the
\* dispatcher drains the channel
Next ==
    \/ /\ \E e \in PipeEvents, refresh \in BOOLEAN : FilterRecv(e, refresh)
       /\ UNCHANGED eventQ
    \/ FilterSteps
    \/ RegSteps
    \/ PrefSteps
    \/ UpdSteps
    \/ DispRecv
    \/ DispAttempt("ok")

Spec == Init /\ [][Next]_vars

\* classifier and dispatcher with re-registration of tokens
NextDispatch ==
    \/ /\ \E e \in DispatchEvents : FilterRecv(e, TRUE)
       /\ UNCHANGED eventQ
    \/ FilterSteps
    \/ /\ ApiCallsUsed < MaxApiCalls
       /\ \E i \in DOMAIN regs, token \in Tokens :
             RegSelect(i, DidAB, token)
    \/ \E i \in DOMAIN regs : RegWrite(i)
    \/ DispRecv
    \/ \E o \in SendOutcomes : DispAttempt(o)
    \/ DispDelete

SpecDispatch == InitDispatch /\ [][NextDispatch]_vars

\* one device is registered; token "t2" is new
InitReg ==
    /\ ClassifyIdle
    /\ FirehoseIdle
    /\ devices = {[id |-> 1, did |-> DidA, device_token |-> "t1"]}
    /\ prefs = InitialPrefs(devices)
    /\ nextId = 2
    /\ regs = [i \in 1..Larger(MaxRegs, MaxApiCalls) |-> NewReq]
    /\ prefUpdates = 0
    /\ RelInit({TRUE}, {[u \in RegDids |-> {}]})
    /\ PipelineInit

\* the event that feeds the dispatcher in SpecReg: a post that mentions
\* DidA and DidAB
RegEvent == MkEvent(DidX, CollPost, NoEmbed, <<>>, <<DidA, DidAB>>, <<>>, <<>>)

\* concurrent registrations and 410 deletions
NextReg ==
    \/ FilterRecv(RegEvent, TRUE) /\ UNCHANGED eventQ
    \/ FilterSteps
    \/ /\ Cardinality({i \in DOMAIN regs : regs[i].pc # "new"}) < MaxRegs
       /\ \E i \in DOMAIN regs, did \in {DidA, DidAB}, token \in Tokens :
             RegSelect(i, did, token)
    \/ \E i \in DOMAIN regs : RegWrite(i)
    \/ DispRecv
    \/ DispAttempt("gone")
    \/ DispDelete

SpecReg == InitReg /\ [][NextReg]_vars

\* the store holds no devices and no relationships
QuietStores ==
    /\ devices = {}
    /\ prefs = [id \in {} |-> DefaultPrefs]
    /\ nextId = 1
    /\ regs = [i \in 1..Larger(MaxRegs, MaxApiCalls) |-> NewReq]
    /\ prefUpdates = 0
    /\ RelInit({TRUE}, {[u \in RegDids |-> {}]})
    /\ PipelineInit

\* the firehose consumer against the relay and the cursor store
InitFirehose ==
    /\ ClassifyIdle
    /\ QuietStores
    /\ firehose_cursor = <<>>
    /\ fh = StartFh
    /\ upstream = [head |-> BaseSeq, epoch |-> 1]
    /\ delivered = NoneDelivered
    /\ cursorWrites = <<>>
    /\ SupIdle

NextFirehose ==
    \/ UpstreamCommit
    \/ UpstreamReset
    \/ \E dbOk \in BOOLEAN : Connect(dbOk)
    \/ ConnectFail
    \/ BackoffDone
    \/ CommitRecv(<<>>, "none")
    \/ \E dbOk \in BOOLEAN : HandleCommit(dbOk)
    \/ StreamError("error_frame")
    \/ CtrlC
    \/ Shutdown
    \/ Restart

SpecFirehose == InitFirehose /\ [][NextFirehose]_vars

\* classify_event and is_event_relevant_to_users applied to one event
Pending == [kind |-> "Pending", dids |-> <<>>]

InitClassify ==
    /\ cEvent \in Events
    /\ cUsers \in {SetToVec(S) : S \in SUBSET RegDids}
    /\ cOut = Pending
    /\ QuietStores
    /\ FirehoseIdle

Classify ==
    /\ cOut = Pending
    /\ cOut' = classify_event(cEvent, cUsers)
    /\ UNCHANGED <<cEvent, cUsers, resolverVars, deviceVars, apiVars, relStoreVars,
                   relCacheVars, relTaskVars, filterVars, dispVars,
                   historyVars, firehoseVars>>

NextClassify == Classify

SpecClassify == InitClassify /\ [][NextClassify]_vars

\* the relationship manager: concurrent batch updates, cache maintenance,
\* expiry and reads for the devices of one registered actor
InitRel ==
    /\ ClassifyIdle
    /\ FirehoseIdle
    /\ devices = {[id |-> 1, did |-> DidA, device_token |-> "t1"]}
    /\ prefs = InitialPrefs(devices)
    /\ nextId = 2
    /\ regs = [i \in 1..Larger(MaxRegs, MaxApiCalls) |-> NewReq]
    /\ prefUpdates = 0
    /\ RelInit(BOOLEAN, InitialMutes)
    /\ PipelineInit

NextRel ==
    \/ /\ Cardinality({i \in DOMAIN upds : upds[i].pc # "new"}) < MaxWriters
       /\ \E i \in DOMAIN upds, t \in Tokens, m \in MuteChoices,
             b \in BlockChoices : UpdCommit(i, DidA, t, m, b)
    \/ \E i \in DOMAIN upds : UpdCacheMutes(i)
    \/ \E i \in DOMAIN upds : UpdCacheBlocks(i)
    \/ CacheExpire(DidA)
    \/ RelRead(DidA)
    \/ MaintStart
    \/ MaintLoad
    \/ MaintInsert

SpecRel == InitRel /\ [][NextRel]_vars

\* the relationship manager called by one client, one call after the
\* other; cache expiry, reads and cache maintenance run between the calls
CallInFlight == \E i \in DOMAIN upds : upds[i].pc \in {"committed", "mutes_cached"}

InitRelSeq ==
    /\ ClassifyIdle
    /\ FirehoseIdle
    /\ devices = {[id |-> 1, did |-> DidA, device_token |-> "t1"]}
    /\ prefs = InitialPrefs(devices)
    /\ nextId = 2
    /\ regs = [i \in 1..Larger(MaxRegs, MaxApiCalls) |-> NewReq]
    /\ prefUpdates = 0
    /\ RelTablesInit(BOOLEAN, InitialMutes)
    /\ upds = [i \in 1..MaxCalls |-> NewUpd]
    /\ PipelineInit

NextRelSeq ==
    \/ /\ ~CallInFlight
       /\ maint.pc = "idle"
       /\ \E i \in DOMAIN upds, t \in Tokens, m \in MuteChoices,
             b \in BlockChoices : UpdCommit(i, DidA, t, m, b)
    \/ \E i \in DOMAIN upds : UpdCacheMutes(i)
    \/ \E i \in DOMAIN upds : UpdCacheBlocks(i)
    \/ ~CallInFlight /\ CacheExpire(DidA)
    \/ ~CallInFlight /\ RelRead(DidA)
    \/ ~CallInFlight /\ MaintStart
    \/ MaintLoad
    \/ MaintInsert

SpecRelSeq == InitRelSeq /\ [][NextRelSeq]_vars

\* PUT /relationships with request arrays of 0, 1, 1000 and 1001 entries:
\* concurrent requests of two registered actors with one device each, with
\* their own token or the token of the other actor
OtherDids(n) == [k \in 1..n |-> <<5, k>>]
MuteVecs == {<<DidC>>, OtherDids(MaxRelationships),
             OtherDids(MaxRelationships + 1)}
BlockVecs == {<<>>, OtherDids(MaxRelationships + 1)}

NextRelApi ==
    \/ /\ Cardinality({i \in DOMAIN upds : upds[i].pc # "new"}) < MaxWriters
       /\ \E i \in DOMAIN upds, t \in Tokens :
             \/ \E m \in MuteVecs, b \in BlockVecs :
                   update_relationships(i, DidA, t, m, b)
             \/ update_relationships(i, DidAB, t, <<DidC>>, <<>>)
    \/ \E i \in DOMAIN upds : UpdCacheMutes(i)
    \/ \E i \in DOMAIN upds : UpdCacheBlocks(i)
    \/ CacheExpire(DidA)

InitRelApi ==
    /\ ClassifyIdle
    /\ FirehoseIdle
    /\ devices = {[id |-> 1, did |-> DidA, device_token |-> "t1"],
                  [id |-> 2, did |-> DidAB, device_token |-> "t2"]}
    /\ prefs = InitialPrefs(devices)
    /\ nextId = 3
    /\ regs = [i \in 1..Larger(MaxRegs, MaxApiCalls) |-> NewReq]
    /\ prefUpdates = 0
    /\ RelInit(BOOLEAN, InitialMutes)
    /\ PipelineInit

SpecRelApi == InitRelApi /\ [][NextRelApi]_vars

\* update_relationships_batch calls of one actor from its two devices,
\* statement by statement, with statements that fail; every call sends
\* lists of its own
TxMutes(i) == IF i = 1 THEN {DidX} ELSE IF i = 2 THEN {DidAB} ELSE {}
TxBlocks(i) == IF i = 2 THEN {DidC} ELSE {}

InitTx ==
    /\ ClassifyIdle
    /\ FirehoseIdle
    /\ devices = {[id |-> 1, did |-> DidA, device_token |-> "t1"],
                  [id |-> 2, did |-> DidA, device_token |-> "t2"]}
    /\ prefs = [id \in {1, 2} |-> DefaultPrefs]
    /\ nextId = 3
    /\ regs = [i \in 1..Larger(MaxRegs, MaxApiCalls) |-> NewReq]
    /\ prefUpdates = 0
    /\ RelTablesInit(BOOLEAN, InitialMutes)
    /\ upds = [i \in 1..MaxWriters |-> NewUpd]
    /\ PipelineInit

NextTx ==
    \/ \E i \in DOMAIN upds, tok \in Tokens :
          TxBegin(i, DidA, tok, TxMutes(i), TxBlocks(i))
    \/ \E i \in DOMAIN upds : TxStmt(i)
    \/ \E i \in DOMAIN upds : TxFail(i)
    \/ \E i \in DOMAIN upds : TxCommit(i)
    \/ \E i \in DOMAIN upds : UpdCacheMutes(i)
    \/ \E i \in DOMAIN upds : UpdCacheBlocks(i)

SpecTx == InitTx /\ [][NextTx]_vars

\* the whole process under its supervisor (main): consumer, event channel,
\* classifier, notification channel, dispatcher, shutdown
\* DidX follows DidA
SupEvents == {MkEvent(DidX, CollFollow, NoEmbed, <<>>, <<>>, DidA, <<>>)}

InitSup ==
    /\ ClassifyIdle
    /\ firehose_cursor = <<>>
    /\ fh = StartFh
    /\ upstream = [head |-> BaseSeq, epoch |-> 1]
    /\ delivered = NoneDelivered
    /\ cursorWrites = <<>>
    /\ sup \in {RunningSup, [RunningSup EXCEPT !.api = "failed"]}
    /\ eventQ = <<>>
    /\ malformed = NoMalformed
    /\ DevicesInit
    /\ Cardinality(devices) = 2
    /\ \A r \in devices : r.did = DidA
    /\ RelInit({TRUE}, {[u \in RegDids |-> {}]})
    /\ PipelineInit

\* event_receiver.recv() yields the oldest event of the channel
FilterRecvQueued ==
    /\ eventQ # <<>>
    /\ FilterRecv(Head(eventQ), TRUE)
    /\ eventQ' = Tail(eventQ)

ConsumerSteps ==
    \/ Connect(TRUE)
    \/ ConnectFail
    \/ BackoffDone
    \/ CommitSend
    \/ HandleCommit(TRUE)

\* (the relay keeps the stream up; its failures are in SpecFirehose and
\* SpecStream)
UpstreamSteps ==
    \/ UpstreamCommit
    \/ \E ev \in {<<>>} \cup {<<e>> : e \in SupEvents} :
          CommitRecv(ev, "none")

NextSup ==
    \/ ConsumerSteps
    \/ UpstreamSteps
    \/ CtrlC
    \/ Shutdown
    \/ FilterRecvQueued
    \/ FilterSteps
    \/ FilterStop
    \/ DispRecv
    \/ DispAttempt("ok")
    \/ DispStop
    \/ MainJoin

\* each of the three tasks takes its next step when it has one (the tokio
\* runtime polls a ready task; connect, store and push calls return);
\* select! picks among its ready branches at random, so a shutdown that
\* is ready again and again is taken. Nothing is assumed of the upstream
\* or of ctrl_c.
FairSup ==
    /\ WF_vars(ConsumerSteps)
    /\ SF_vars(Shutdown)
    /\ WF_vars(FilterRecvQueued \/ FilterSteps \/ FilterStop)
    /\ WF_vars(DispRecv \/ DispAttempt("ok") \/ DispStop)

SpecSup == InitSup /\ [][NextSup]_vars /\ FairSup

\* one upstream session from the relay to the notification channel: the
\* commit of seq s carries up to two ops, and every op of the session
\* yields an event of its own notification type for the two devices of
\* one actor
OrderedEvents ==
    <<MkEvent(DidX, CollFollow, NoEmbed, <<>>, <<>>, DidA, <<>>),
      MkEvent(DidX, CollLike, NoEmbed, <<>>, <<>>, PostUri(DidA), <<>>),
      MkEvent(DidX, CollPost, NoEmbed, <<>>, <<DidA>>, <<>>, <<>>),
      MkEvent(DidX, CollRepost, NoEmbed, <<>>, <<>>, PostUri(DidA), <<>>),
      MkEvent(DidX, CollPost, NoEmbed, PostUri(DidA), <<>>, <<>>, <<>>),
      MkEvent(DidX, CollPost, RecordEmbed(PostUri(DidA)), <<>>, <<>>, <<>>,
              <<>>)>>

\* the ops of the commit with sequence number seq
OpsOf(seq) ==
    <<OrderedEvents[2 * (seq % 3) + 1], OrderedEvents[2 * (seq % 3) + 2]>>

\* history: the commit and the op a notification type stems from
UpstreamPos(kind) ==
    CHOOSE pos \in (BaseSeq..MaxSeq) \X {1, 2} :
        classify_event(OpsOf(pos[1])[pos[2]], <<DidA>>).kind = kind

Precedes(a, b) == a[1] < b[1] \/ (a[1] = b[1] /\ a[2] < b[2])

InitOrder ==
    /\ ClassifyIdle
    /\ firehose_cursor = <<>>
    /\ fh = StartFh
    /\ upstream = [head |-> BaseSeq - 1, epoch |-> 1]
    /\ delivered = NoneDelivered
    /\ cursorWrites = <<>>
    /\ SupIdle
    /\ devices = {[id |-> 1, did |-> DidA, device_token |-> "t1"],
                  [id |-> 2, did |-> DidA, device_token |-> "t2"]}
    /\ prefs = [id \in {1, 2} |-> DefaultPrefs]
    /\ nextId = 3
    /\ regs = [i \in 1..Larger(MaxRegs, MaxApiCalls) |-> NewReq]
    /\ prefUpdates = 0
    /\ RelInit({TRUE}, {[u \in RegDids |-> {}]})
    /\ PipelineInit

NextOrder ==
    \/ UpstreamCommit
    \/ Connect(TRUE)
    \/ \E n \in 0..2 :
          /\ evCount + Len(eventQ) + n <= MaxOrdered
          /\ CommitArrive(SubSeq(OpsOf(fh.next), 1, n), "none")
    \/ CommitSend
    \/ \E dbOk \in BOOLEAN : HandleCommit(dbOk)
    \/ /\ eventQ # <<>>
       /\ FilterTake(Head(eventQ), TRUE)
       /\ eventQ' = Tail(eventQ)
    \/ FilterSteps
    \/ DispRecv
    \/ DispAttempt("ok")

SpecOrder == InitOrder /\ [][NextOrder]_vars

\* the consumer on a stream that carries malformed data
NextStream ==
    \/ UpstreamCommit
    \/ Connect(TRUE)
    \/ \E defect \in {"none"} \cup OpDefects : CommitRecv(<<>>, defect)
    \/ HandleCommit(TRUE)
    \/ \E cause \in {"bad_commit_body", "bad_car"} : SkipFrame(cause)
    \/ \E cause \in {"error_frame", "bad_frame"} : StreamError(cause)

SpecStream == InitFirehose /\ [][NextStream]_vars

\* the consumer between failing connection attempts, commits that are
\* handled and commits whose blocks cannot be opened
NextReconnect ==
    \/ UpstreamCommit
    \/ Connect(TRUE)
    \/ ConnectFail
    \/ BackoffDone
    \/ CommitRecv(<<>>, "none")
    \/ HandleCommit(TRUE)
    \/ SkipFrame("bad_car")
    \/ StreamError("error_frame")

SpecReconnect == InitFirehose /\ [][NextReconnect]_vars

\* the consumer on connections that are established and then fail or
\* end. The consumer takes its
\* next step when it has one, and takes the shutdown branch when the
\* one-shot has fired; nothing is assumed of the relay or of ctrl_c
LinkSteps ==
    \/ Connect(TRUE)
    \/ HandleCommit(TRUE)

NextLink ==
    \/ UpstreamCommit
    \/ LinkSteps
    \/ CommitRecv(<<>>, "none")
    \/ \E cause \in {"error_frame", "read_error"} : StreamError(cause)
    \/ \E cause \in {"closed", "non_binary"} : StreamEnd(cause)
    \/ CtrlC
    \/ Shutdown

SpecLink == InitFirehose /\ [][NextLink]_vars
            /\ WF_vars(LinkSteps) /\ SF_vars(Shutdown)

\* the classifier against a slow dispatcher: one event of each kind for
\* DidA, who has two devices with every preference on
BackpressureEvents ==
    {MkEvent(DidX, CollPost, NoEmbed, <<>>, <<DidA>>, <<>>, <<>>),
     MkEvent(DidX, CollPost, NoEmbed, PostUri(DidA), <<>>, <<>>, <<>>),
     MkEvent(DidX, CollPost, RecordEmbed(PostUri(DidA)), <<>>, <<>>, <<>>,
             <<>>),
     MkEvent(DidX, CollLike, NoEmbed, <<>>, <<>>, PostUri(DidA), <<>>),
     MkEvent(DidX, CollRepost, NoEmbed, <<>>, <<>>, PostUri(DidA), <<>>),
     MkEvent(DidX, CollFollow, NoEmbed, <<>>, <<>>, DidA, <<>>)}

InitBackpressure ==
    /\ ClassifyIdle
    /\ FirehoseIdle
    /\ devices = {[id |-> 1, did |-> DidA, device_token |-> "t1"],
                  [id |-> 2, did |-> DidA, device_token |-> "t2"]}
    /\ prefs = [id \in {1, 2} |-> DefaultPrefs]
    /\ nextId = 3
    /\ regs = [i \in 1..Larger(MaxRegs, MaxApiCalls) |-> NewReq]
    /\ prefUpdates = 0
    /\ RelInit({TRUE}, {[u \in RegDids |-> {}]})
    /\ PipelineInit

NextBackpressure ==
    \/ /\ \E e \in BackpressureEvents : FilterRecv(e, TRUE)
       /\ UNCHANGED eventQ
    \/ FilterSteps
    \/ DispRecv
    \/ DispAttempt("ok")

SpecBackpressure == InitBackpressure /\ [][NextBackpressure]_vars

\* the classifier with store queries that fail: posts by DidC that
\* mention DidA and DidAB, and a like of a post of DidA; DidA has muted
\* DidC or nobody; plaintext or hashed storage; no cache entry at start
DbFailEvents ==
    {MkEvent(DidC, CollPost, NoEmbed, <<>>, <<DidA, DidAB>>, <<>>, <<>>),
     MkEvent(DidC, CollLike, NoEmbed, <<>>, <<>>, PostUri(DidA), <<>>)}

InitDbFail ==
    /\ ClassifyIdle
    /\ FirehoseIdle
    /\ devices = {[id |-> 1, did |-> DidA, device_token |-> "t1"],
                  [id |-> 2, did |-> DidAB, device_token |-> "t2"]}
    /\ prefs \in {[id \in {1, 2} |-> DefaultPrefs],
                  [id \in {1, 2} |-> MentionsOff]}
    /\ nextId = 3
    /\ regs = [i \in 1..Larger(MaxRegs, MaxApiCalls) |-> NewReq]
    /\ prefUpdates = 0
    /\ RelInit(BOOLEAN, InitialMutes)
    /\ PipelineInit

NextDbFail ==
    \/ /\ \E e \in DbFailEvents : FilterRecv(e, FALSE)
       /\ UNCHANGED eventQ
    \/ FilterFetchErr
    \/ \E muteOk, blockOk \in BOOLEAN : FilterCheck(muteOk, blockOk)
    \/ \E k \in 1..Len(tasks) : TaskPrefsErr(k)
    \/ FilterSteps
    \/ DispRecv
    \/ DispAttempt("ok")

SpecDbFail == InitDbFail /\ [][NextDbFail]_vars

\* the classifier against a dispatcher that may stop taking payloads for
\* good: events of both priorities for an actor with two devices keep
\* arriving on the event channel. The classifier takes its next step when
\* it has one (recv returns an event that is there, queries return, the
\* 3 s timer fires); nothing is assumed of the dispatcher
StallEvents ==
    {MkEvent(DidX, CollPost, NoEmbed, <<>>, <<DidA>>, <<>>, <<>>),
     MkEvent(DidX, CollLike, NoEmbed, <<>>, <<>>, PostUri(DidA), <<>>)}

StallRecv ==
    /\ evCount < MaxStalled
    /\ \E e \in StallEvents : FilterTake(e, FALSE)
    /\ UNCHANGED eventQ

NextStall ==
    \/ StallRecv
    \/ FilterSteps
    \/ DispRecv
    \/ DispAttempt("ok")

SpecStall == /\ InitBackpressure
             /\ [][NextStall]_vars
             /\ WF_vars(StallRecv)
             /\ WF_vars(FilterSteps)

\* get_handles_bulk applied to bounded requests: ids of a supported and of
\* an unsupported method, with a last segment of fewer than 8 characters,
\* of more, and of more with a two-byte character across or before the
\* eighth byte; each tier with and without an entry
PlcShort == MethodPlc \o <<1, 2, 3>>
PlcLong == MethodPlc \o <<1, 2, 3, 4, 5, 6, 7, 8, 9>>
KeyLong == MethodKey \o <<1, 2, 3, 4, 5, 6, 7, 8, 9>>
KeyWideAcross == MethodKey \o <<1, 2, 3, 4, 5, 6, 7, ChWide, 9>>
KeyWideBefore == MethodKey \o <<ChWide, 2, 3, 4, 5, 6, 7, 8, 9>>
HandleDids == {PlcShort, PlcLong, KeyLong, KeyWideAcross, KeyWideBefore}
HandleA == <<80, ChDot, 81>>
HandleB == <<82, ChDot, 81>>

Documents(did) ==
    {NoDocument,
     [id |-> did, also_known_as |-> <<>>, fetched |-> TRUE],
     [id |-> did, also_known_as |-> <<Scheme \o HandleA>>,
      fetched |-> TRUE]}

HandleRequests ==
    {[dids |-> ds, mem |-> m, db |-> d, dbOk |-> ok,
      net |-> [x \in HandleDids |-> IF x = PlcLong THEN doc
                                    ELSE NoDocument]] :
        ds \in {<<a>> : a \in HandleDids}
                  \cup {<<PlcShort, a>> : a \in HandleDids},
        m \in {<<>>, [x \in {PlcShort} |-> HandleB]},
        d \in {<<>>, [x \in {PlcShort, PlcLong} |-> HandleB]},
        ok \in BOOLEAN,
        doc \in Documents(PlcLong)}

InitHandles ==
    /\ ClassifyIdle
    /\ FirehoseIdle
    /\ devices = {}
    /\ prefs = [id \in {} |-> DefaultPrefs]
    /\ nextId = 1
    /\ regs = [i \in 1..Larger(MaxRegs, MaxApiCalls) |-> NewReq]
    /\ prefUpdates = 0
    /\ RelInit({TRUE}, {[u \in RegDids |-> {}]})
    /\ PipelineIdle
    /\ ResolverIdle
    /\ hReq \in HandleRequests
    /\ hOut = PendingHandles
    /\ ExpiryIdle
    /\ upText = <<>>
    /\ gotText = NoFetch
    /\ CryptoIdle

NextHandles == GetHandlesBulk

\* extract_handle_from_document, reached through get_handles_bulk with
\* both cache tiers empty, applied to documents whose alsoKnownAs lists
\* mix the two handle forms and other names in every order
MaxNames == 2
ProfileUrl(handle) == <<60>> \o ProfileSep \o handle   \* "https://bsky.app/profile/<handle>"
OtherName == <<61, 62>>                                \* neither form
AkaNames == {Scheme \o HandleA, Scheme \o HandleB, ProfileUrl(HandleA),
             ProfileUrl(HandleB), OtherName}
AkaLists == UNION {[1..n -> AkaNames] : n \in 0..MaxNames}

ExtractRequests ==
    {[NoRequest EXCEPT
         !.dids = <<did>>,
         !.net = [x \in {did} |->
                     [id |-> did, also_known_as |-> aka, fetched |-> TRUE]]] :
        did \in {PlcShort, PlcLong}, aka \in AkaLists}

InitExtract ==
    /\ ClassifyIdle
    /\ FirehoseIdle
    /\ devices = {}
    /\ prefs = [id \in {} |-> DefaultPrefs]
    /\ nextId = 1
    /\ regs = [i \in 1..Larger(MaxRegs, MaxApiCalls) |-> NewReq]
    /\ prefUpdates = 0
    /\ RelInit({TRUE}, {[u \in RegDids |-> {}]})
    /\ PipelineIdle
    /\ ResolverIdle
    /\ hReq \in ExtractRequests
    /\ hOut = PendingHandles
    /\ ExpiryIdle
    /\ upText = <<>>
    /\ gotText = NoFetch
    /\ CryptoIdle

SpecExtract == InitExtract /\ [][NextHandles]_vars

\* the truncation of one upstream post text on the batch path and on the
\* individual path
InitTruncate ==
    /\ ClassifyIdle
    /\ FirehoseIdle
    /\ devices = {}
    /\ prefs = [id \in {} |-> DefaultPrefs]
    /\ nextId = 1
    /\ regs = [i \in 1..Larger(MaxRegs, MaxApiCalls) |-> NewReq]
    /\ prefUpdates = 0
    /\ RelInit({TRUE}, {[u \in RegDids |-> {}]})
    /\ PipelineIdle
    /\ ResolverIdle
    /\ HandlesIdle
    /\ upText \in PostTexts
    /\ gotText = NoFetch
    /\ CryptoIdle

NextTruncate == FetchBatchText \/ FetchIndividualText

SpecTruncate == InitTruncate /\ [][NextTruncate]_vars

\* the two tiers of the handle cache or of the post cache under a clock:
\* entries are stored, read and swept while time passes
InitExpiry ==
    /\ ClassifyIdle
    /\ FirehoseIdle
    /\ devices = {}
    /\ prefs = [id \in {} |-> DefaultPrefs]
    /\ nextId = 1
    /\ regs = [i \in 1..Larger(MaxRegs, MaxApiCalls) |-> NewReq]
    /\ prefUpdates = 0
    /\ RelInit({TRUE}, {[u \in RegDids |-> {}]})
    /\ PipelineIdle
    /\ PostsIdle
    /\ hReq = NoRequest
    /\ hOut = [status |-> "ok", map |-> <<>>]
    /\ now = 0
    /\ \E c \in Caches :
          /\ memory_cache = [x \in {c} |-> [k \in CacheKeys |-> NoCachedInfo]]
          /\ db_cache = [x \in {c} |-> [k \in CacheKeys |-> NoCachedInfo]]
          /\ cacheTask = [x \in {c} |-> IdleTask]
    /\ cacheOp = NoCacheOp

\* each behaviour follows one of the two caches
NextExpiry ==
    \/ Tick
    \/ \E c \in DOMAIN memory_cache, k \in CacheKeys :
          GetFromMemoryCache(c, k)
    \/ \E c \in DOMAIN memory_cache : GetFromDbCache(c)
    \/ \E c \in DOMAIN memory_cache, k \in CacheKeys : UpdateCaches(c, k)
    \/ \E c \in DOMAIN memory_cache : CleanupMemory(c)
    \/ \E c \in DOMAIN memory_cache, ok \in BOOLEAN : CleanupDb(c, ok)

SpecExpiry == InitExpiry /\ [][NextExpiry]_vars

\* the CryptoUtils functions applied to two DIDs and two users
InitCrypto ==
    /\ ClassifyIdle
    /\ FirehoseIdle
    /\ devices = {}
    /\ prefs = [id \in {} |-> DefaultPrefs]
    /\ nextId = 1
    /\ regs = [i \in 1..Larger(MaxRegs, MaxApiCalls) |-> NewReq]
    /\ prefUpdates = 0
    /\ RelInit({TRUE}, {[u \in RegDids |-> {}]})
    /\ PipelineIdle
    /\ ResolverIdle
    /\ HandlesIdle
    /\ upText = <<>>
    /\ gotText = NoFetch
    /\ hashIn \in [t : HashDids, t2 : HashDids, u : HashDids, u2 : HashDids]
    /\ hashOut = NoHashes

NextCrypto == ApplyCrypto

SpecCrypto == InitCrypto /\ [][NextCrypto]_vars

SpecHandles == InitHandles /\ [][NextHandles]_vars

\* the post resolver: get_post_content calls against the request
\* processor, the upstream API and the circuit breaker
InitPosts ==
    /\ ClassifyIdle
    /\ QuietStores
    /\ FirehoseIdle

NextPosts ==
    \/ \E i \in DOMAIN lookups, u \in PostUris : GetPostContent(i, u)
    \/ \E o \in UpstreamOutcomes \ {"empty"}, found \in SUBSET PostUris :
          ProcessBatch(o, found)
    \/ \E i \in DOMAIN lookups, o \in UpstreamOutcomes : SpawnedFetch(i, o)
    \/ \E i \in DOMAIN lookups : LookupTimeout(i)
    \/ \E i \in DOMAIN lookups, o \in UpstreamOutcomes : CallerFetch(i, o)
    \/ \E job \in cacheJobs : CacheWrite(job)
    \/ OpenElapsed

SpecPosts == InitPosts /\ [][NextPosts]_vars

\* several callers inside get_post_content at the same time, for the same
\* uri or for different ones, against the request processor; the upstream
\* answers or refuses, the stores are empty at the start
InitCoalesce ==
    /\ ClassifyIdle
    /\ FirehoseIdle
    /\ devices = {}
    /\ prefs = [id \in {} |-> DefaultPrefs]
    /\ nextId = 1
    /\ regs = [i \in 1..Larger(MaxRegs, MaxApiCalls) |-> NewReq]
    /\ prefUpdates = 0
    /\ RelInit({TRUE}, {[u \in RegDids |-> {}]})
    /\ PipelineIdle
    /\ HandlesIdle
    /\ api_circuit_breaker = ClosedBreaker
    /\ post_memory_cache = [u \in PostUris |-> NoText]
    /\ post_cache = [u \in PostUris |-> NoText]
    /\ request_queue = [u \in PostUris |-> 0]
    /\ lookups = [i \in 1..MaxWaiters |-> NewLookup]
    /\ cacheJobs = {}
    /\ failStreak = 0
    /\ reclosed = FALSE
    /\ upText = <<>>
    /\ gotText = NoFetch
    /\ CryptoIdle

WorkerSteps ==
    \/ \E o \in {"ok", "status"}, found \in SUBSET PostUris :
          ProcessBatch(o, found)
    \/ \E i \in DOMAIN lookups, o \in {"ok", "status"} : SpawnedFetch(i, o)

NextCoalesce ==
    \/ \E i \in DOMAIN lookups, u \in PostUris : GetPostContent(i, u)
    \/ WorkerSteps
    \/ \E i \in DOMAIN lookups : LookupTimeout(i)
    \/ \E i \in DOMAIN lookups, o \in {"ok", "status"} : CallerFetch(i, o)
    \/ \E job \in cacheJobs : CacheWrite(job)

SpecCoalesce == InitCoalesce /\ [][NextCoalesce]_vars

\* a burst of MaxPending callers, each missing the caches for a uri of
\* its own, against the request processor, which runs when a full batch
\* is pending or every caller has registered
InitBatch ==
    /\ ClassifyIdle
    /\ FirehoseIdle
    /\ devices = {}
    /\ prefs = [id \in {} |-> DefaultPrefs]
    /\ nextId = 1
    /\ regs = [i \in 1..Larger(MaxRegs, MaxApiCalls) |-> NewReq]
    /\ prefUpdates = 0
    /\ RelInit({TRUE}, {[u \in RegDids |-> {}]})
    /\ PipelineIdle
    /\ HandlesIdle
    /\ api_circuit_breaker = ClosedBreaker
    /\ post_memory_cache = [u \in BatchUris |-> NoText]
    /\ post_cache = [u \in BatchUris |-> NoText]
    /\ request_queue = [u \in BatchUris |-> 0]
    /\ lookups = [i \in 1..MaxPending |-> NewLookup]
    /\ cacheJobs = {}
    /\ failStreak = 0
    /\ reclosed = FALSE
    /\ upText = <<>>
    /\ gotText = NoFetch
    /\ CryptoIdle

BurstArrived == \A i \in DOMAIN lookups : lookups[i].pc # "new"

NextBatch ==
    \/ \E i \in DOMAIN lookups :
          /\ lookups[i].pc = "new"
          /\ \A j \in 1..(i - 1) : lookups[j].pc # "new"
          /\ GetPostContent(i, BatchUri(i))
    \/ /\ BurstArrived \/ Cardinality(PendingUris) >= max_batch_size
       /\ \E uris \in TakeKeys(PendingUris, max_batch_size) :
             \/ ProcessRound(uris, "ok", uris)
             \/ \E u \in uris : ProcessRound(uris, "ok", uris \ {u})
             \/ /\ Cardinality(uris) < max_batch_size
                /\ ProcessRound(uris, "status", {})
    \/ \E i \in DOMAIN lookups, o \in {"ok", "status"} :
          /\ \A j \in 1..(i - 1) : lookups[j].proc # "fetching"
          /\ SpawnedFetch(i, o)

SpecBatch == InitBatch /\ [][NextBatch]_vars

\* callers that each make one get_post_content call, against a request
\* processor that may answer, stall for ever or lose a sender; the timer
\* of timeout(150 ms, ..) fires and the http client (timeout 10 s) ends
\* every request the caller itself makes
FirstCall(i, u) == lookups[i].pc = "new" /\ GetPostContent(i, u)

WaiterSteps(i) ==
    \/ LookupTimeout(i)
    \/ \E o \in {"ok", "status"} : CallerFetch(i, o)

NextWait ==
    \/ \E i \in DOMAIN lookups, u \in PostUris : FirstCall(i, u)
    \/ \E found \in SUBSET PostUris : ProcessBatch("ok", found)
    \/ \E i \in DOMAIN lookups : SpawnedFetch(i, "ok")
    \/ \E i \in DOMAIN lookups : SenderDropped(i)
    \/ \E i \in DOMAIN lookups : WaiterSteps(i)

SpecWait == /\ InitCoalesce
            /\ [][NextWait]_vars
            /\ \A i \in 1..MaxWaiters : WF_vars(WaiterSteps(i))


\* ------------------------------------------------------------------ claims
\* C1: a recipient for whom is_muted or is_blocked returned true when the
\* classifier evaluated it gets no payload of that event, on any of its
\* devices and whatever the kind
C1_NoPayloadWhenMutedOrBlocked ==
    \A p \in DOMAIN enqueued : <<p.eid, p.user_did>> \notin suppressed

\* a recipient with a device was suppressed and the event is finished
C1_Witness ==
    /\ filt.pc = "idle"
    /\ \E x \in suppressed : \E r \in devices : r.did = x[2]

\* C2: an event whose author is not in the registered set and that matches
\* no registered actor structurally yields no payload, and the recipient of
\* every payload is a member of the registered set used for its event
C2_OnlyRegisteredRecipients ==
    \A p \in DOMAIN enqueued :
        /\ p.eid \notin unmatched
        /\ <<p.eid, p.user_did>> \in usedReg

\* an event without author or structural match has been processed while an
\* unregistered mentioned actor was not a recipient either
C2_Witness ==
    /\ unmatched # {}
    /\ filt.pc = "idle"
    /\ devices # {}

\* C3: a device whose preference flag for the event's kind was loaded as
\* false gets no payload of that event for its token
C3_NoPayloadWhenFlagOff ==
    \A p \in DOMAIN enqueued :
        <<p.eid, p.user_did, p.device_token>> \notin prefOff

\* one device of a recipient had the flag off, another device of the same
\* recipient got the payload
C3_Witness ==
    \E x \in prefOff : \E p \in DOMAIN enqueued :
        p.eid = x[1] /\ p.user_did = x[2] /\ p.device_token # x[3]

\* C4: for every event and device token at most one payload is enqueued
\* and at most one push is accepted by the gateway
C4_AtMostOncePerToken ==
    /\ \A k \in DOMAIN accepted : accepted[k] <= 1
    /\ \A p, q \in DOMAIN enqueued :
          (p.eid = q.eid /\ p.device_token = q.device_token) =>
              (p = q /\ enqueued[p] = 1)

C8_Deletes410Only ==
    [][/\ (disp.pc = "deleting" /\ disp'.pc = "idle") =>
            devices' = {r \in devices :
                           r.device_token # disp.payload.device_token}
       /\ (disp.pc = "sending" /\ disp'.pc = "idle") => devices' = devices
       /\ (disp.pc = "sending" /\ disp'.pc # "sending"
              /\ disp'.last = "gone") => disp'.pc = "deleting"]_vars

\* a 410 deleted a row while another row stayed
C8_Witness ==
    /\ lastPush.result = "gone"
    /\ lastPush.deleted # {}
    /\ devices # {}

\* the actors of users that the claim's table names for an event
QuotedActors(e, users) ==
    {u \in users : e.record.embed.present /\ e.record.embed.hasRecord
                   /\ \/ Contains(e.record.embed.uri, u)
                      \/ Contains(e.record.embed.inner, u)}
RepliedActors(e, users) == {u \in users : Contains(e.record.reply, u)}
MentionedActors(e, users) == {u \in users : u \in VecToSet(e.record.facets)}
SubjectActors(e, users) == {u \in users : Contains(e.record.subject, u)}
FollowedActors(e, users) == {u \in users : e.record.subject = u}

ExpectedKind(e, users) ==
    IF Contains(e.path, CollPost)
    THEN IF QuotedActors(e, users) # {} THEN "Quote"
         ELSE IF RepliedActors(e, users) # {} THEN "Reply"
         ELSE IF MentionedActors(e, users) # {} THEN "Mention"
         ELSE "None"
    ELSE IF Contains(e.path, CollLike)
    THEN IF SubjectActors(e, users) # {} THEN "Like" ELSE "None"
    ELSE IF Contains(e.path, CollRepost)
    THEN IF SubjectActors(e, users) # {} THEN "Repost" ELSE "None"
    ELSE IF FollowedActors(e, users) # {} THEN "Follow" ELSE "None"

ExpectedRecipients(e, users) ==
    LET k == ExpectedKind(e, users)
    IN CASE k = "Quote" -> QuotedActors(e, users)
         [] k = "Reply" -> RepliedActors(e, users)
         [] k = "Mention" -> MentionedActors(e, users)
         [] k \in {"Like", "Repost"} -> SubjectActors(e, users)
         [] k = "Follow" -> FollowedActors(e, users)
         [] OTHER -> {}

\* C5: classify_event yields the kind of the first candidate in the order
\* Quote, Reply, Mention that has a registered recipient (a like, repost or
\* follow only its own kind), with exactly that candidate's recipients,
\* each once, and nothing when there is none
C5_ClassifyPrecedence ==
    cOut # Pending =>
        /\ cOut.kind = ExpectedKind(cEvent, VecToSet(cUsers))
        /\ VecToSet(cOut.dids) = ExpectedRecipients(cEvent, VecToSet(cUsers))
        /\ NoDuplicates(cOut.dids)

\* a post with a quote embed and a reply, neither of a registered actor,
\* was classified as a mention
C5_Witness ==
    /\ cOut.kind = "Mention"
    /\ has_quote_embed(cEvent.record)
    /\ cEvent.record.reply # <<>>

\* C6: once an update_relationships_batch of a user has returned success
\* and is the last write for that user, is_muted and is_blocked answer by
\* membership in the sets it wrote, until the cache entries expire
C6_ReadsReflectLastWrite ==
    \A u \in RegDids :
        (lastWrite[u].written /\ lastWrite[u].fresh
            /\ upds[lastWrite[u].by].pc = "done") =>
        \A t \in AllDids :
            /\ is_muted(u, t) = (t \in lastWrite[u].mutes)
            /\ is_blocked(u, t) = (t \in lastWrite[u].blocks)

\* C9: a connection made while a cursor is stored subscribes from that
\* cursor, and no commit of the session is passed over before a later one
\* is delivered
C9_ResumesFromCursor ==
    (fh.pc = "streaming" /\ fh.last_cursor # NoCursor) =>
        /\ fh.cursorParam = fh.last_cursor
        /\ ~delivered.gap

\* C10: of two cursor writes of one upstream session the later carries a
\* seq at least as large, and get_last_cursor returns the value written
\* last
C10_CursorMonotone ==
    /\ \A i, j \in 1..Len(cursorWrites) :
          (i < j /\ cursorWrites[i].epoch = cursorWrites[j].epoch) =>
              cursorWrites[i].seq <= cursorWrites[j].seq
    /\ cursorWrites # <<>> =>
          ParseSeq(get_last_cursor(firehose_cursor)) =
              cursorWrites[Len(cursorWrites)].seq
    /\ cursorWrites = <<>> => get_last_cursor(firehose_cursor) = NoCursor

\* two writes of one session, the later with a two-digit seq
C10_Witness ==
    \E i, j \in 1..Len(cursorWrites) :
        /\ i < j
        /\ cursorWrites[i].epoch = cursorWrites[j].epoch
        /\ cursorWrites[i].seq < 10
        /\ cursorWrites[j].seq >= 10

\* C11: the upstream call that is the fifth failed one in a row leaves the
\* circuit breaker Open, and a lookup that completes at the upstream stage
\* while the breaker is Open returns "Content temporarily unavailable"
C11_OpenAfterFiveFailures ==
    [][/\ (failStreak < failure_threshold
           /\ failStreak' >= failure_threshold)
          => api_circuit_breaker'.state = "Open"
       /\ \A i \in DOMAIN lookups :
             (/\ api_circuit_breaker.state = "Open"
              /\ lookups[i].pc \in {"queued", "individual"}
              /\ lookups'[i].pc = "done")
             => lookups'[i].result = OkText(CircuitOpenText)]_vars

\* C12: once the breaker has re-closed after being open, a lookup that
\* starts and ends while it is closed returns the text upstream holds for
\* its uri, never the circuit-open text
C12_NormalAfterReclose ==
    \A i \in DOMAIN lookups :
       (/\ lookups[i].pc = "done"
        /\ lookups[i].after
        /\ lookups[i].result.ok
        /\ reclosed
        /\ api_circuit_breaker.state = "Closed")
       => lookups[i].result.text = UpstreamText[lookups[i].uri]

\* C13: whenever the consumer gives up a connection attempt or loses its
\* stream (a connect failure while Connecting, a stream error while
\* Streaming) it counts the attempt and then either sleeps in backoff or,
\* when the count reaches MAX_RECONNECTS, exits with the fatal error; it
\* is never back in Connecting after a stream error with the attempt
\* uncounted and no backoff
C13_ReconnectCountsAndBacksOff ==
    [][(/\ fh.pc \in {"connecting", "streaming"}
        /\ fh'.pc \in {"connecting", "backoff", "failed"}
        /\ fh'.pc # fh.pc)
       => /\ fh'.reconnect_attempts = fh.reconnect_attempts + 1
          /\ fh'.pc = IF fh'.reconnect_attempts >= MAX_RECONNECTS
                      THEN "failed" ELSE "backoff"]_vars

\* C15: once the shutdown one-shot is signalled, whatever the consumer is
\* doing, the consumer returns, then the classifier ends, and only with
\* the event channel empty and the consumer gone, and then the dispatcher
\* ends, and only with the notification channel empty and the classifier
\* gone
C15_ShutdownDrainsAndStops ==
    /\ [](filt.pc = "stopped"
            => (fh.pc \in {"stopped", "failed"} /\ eventQ = <<>>))
    /\ [](disp.pc = "stopped" => (filt.pc = "stopped" /\ notifQ = <<>>))
    /\ (sup.pc = "joining")
          ~> (/\ fh.pc \in {"stopped", "failed"}
              /\ filt.pc = "stopped"
              /\ disp.pc = "stopped")

\* the shutdown arrived in the middle of a commit, and all three tasks
\* have ended after the event of a commit was pushed
C15_Witness ==
    /\ sup.pc = "joining"
    /\ sup.busy
    /\ fh.pc = "stopped"
    /\ filt.pc = "stopped"
    /\ disp.pc = "stopped"
    /\ accepted # EmptyBag

\* C14: when the consumer has returned with the fatal error, main
\* eventually leaves its wait and shuts the process down
C14_FatalExitShutsDown == (fh.pc = "failed") ~> (sup.pc # "running")

\* C16: malformed upstream data (a frame that does not parse, an op of an
\* unknown collection, a block that is missing or does not decode) is
\* passed over with the consumer still on its connection: it goes on in
\* the same commit or waits for the next frame, and neither reconnects
\* nor exits
C16_MalformedKeepsStreaming ==
    [][malformed'.n # malformed.n
          => fh'.pc \in {"streaming", "handling"}]_vars

\* C17: a device future that has its payload ready gives it up without
\* offering it to the channel exactly when the channel has no room and the
\* kind is Like, Repost or Quote; otherwise the payload is offered: put
\* into the channel at once when there is room, and for Mention, Reply and
\* Follow with no room after the pause, where it is lost only when the
\* 3 s run out with the channel still full
C17_BackpressurePolicy ==
    [][\A k \in DOMAIN tasks \cap DOMAIN tasks' :
          LET full == NotifCap - Len(notifQ) = 0
              low == filt.kind \in {"Like", "Repost", "Quote"}
              put == notifQ' = Append(notifQ, Payload(tasks[k]))
          IN /\ (tasks[k].pc = "send" /\ tasks'[k].pc # "send")
                => /\ (tasks'[k].pc = "done" /\ notifQ' = notifQ)
                         <=> (full /\ low)
                   /\ (~full) => (put /\ tasks'[k].pc = "done")
                   /\ (full /\ ~low) => tasks'[k].pc = "blocked"
             /\ (tasks[k].pc = "blocked" /\ tasks'[k].pc # "blocked")
                => (put \/ (full /\ notifQ' = notifQ))]_vars

\* the channel is full and a future holds a payload of a kind that waits
\* (it has paused and is offering it), after the other device's payload of
\* the same event went in
C17_Witness ==
    /\ filt.pc = "join"
    /\ filt.kind \in {"Mention", "Reply", "Follow"}
    /\ Len(notifQ) = NotifCap
    /\ \E k \in DOMAIN tasks : tasks[k].pc = "blocked"

\* C18: for the payload in hand the dispatcher makes at most the initial
\* attempt and MAX_RETRIES further ones; it has slept 100 ms before the
\* first retry and twice the previous wait before each further one; and
\* when the last attempt fails on the transport the payload is dropped
\* (not pushed, not put back) and the dispatcher is free for the next one
C18_BoundedRetriesWithBackoff ==
    [][disp.pc = "sending"
       => /\ disp.retry_count + 1 <= 1 + MAX_RETRIES
          /\ Len(disp.slept) = disp.retry_count
          /\ \A i \in 1..Len(disp.slept) :
                disp.slept[i] = InitialBackoff * 2^(i - 1)
          /\ (disp'.pc = "idle" /\ disp'.last = "transport")
                => /\ disp' = [IdleDisp EXCEPT !.last = "transport"]
                   /\ accepted' = accepted
                   /\ notifQ' = notifQ]_vars

\* the sends of a payload have failed on the transport twice and the
\* dispatcher has slept 100 ms and 200 ms
C18_Witness ==
    /\ disp.pc = "sending"
    /\ disp.last = "transport"
    /\ disp.retry_count = 2
    /\ disp.slept = <<InitialBackoff, 2 * InitialBackoff>>

\* C19: once the gateway has answered a push with a non-2xx status (410
\* "gone" or another rejection), the dispatcher does not send the payload
\* again
C19_NoResendAfterStatus ==
    [][(/\ disp.pc = "sending"
        /\ disp' # disp
        /\ disp'.last \in {"gone", "rejected"})
       => disp'.pc # "sending"]_vars

\* C20: a call of get_handles_bulk returns a map with an entry for every
\* id asked for: the cached handle for an id the memory tier or (when its
\* query succeeds) the persistent tier holds, the resolved handle for an
\* id the network resolves, and otherwise "user_" followed by the first 8
\* characters of the id's last colon-separated segment
C20_EntryForEveryId ==
    hOut # PendingHandles
    => /\ hOut.status = "ok"
       /\ DOMAIN hOut.map = VecToSet(hReq.dids)
       /\ \A d \in VecToSet(hReq.dids) :
             LET seg == LastPart(d)
                 first8 == IF Len(seg) > 8 THEN SubSeq(seg, 1, 8) ELSE seg
             IN hOut.map[d] =
                   IF d \in DOMAIN hReq.mem THEN hReq.mem[d]
                   ELSE IF hReq.dbOk /\ d \in DOMAIN hReq.db
                   THEN hReq.db[d]
                   ELSE IF resolve_did_network(d, hReq.net) # <<>>
                   THEN resolve_did_network(d, hReq.net)
                   ELSE UserPrefix \o first8

\* C21: a registration that reaches its write with the token not stored
\* is answered 201 and adds exactly one device row, for its actor and
\* token, and one preferences row, for that device; a registration that
\* found its own (actor, token) pair stored is answered 200 and leaves
\* both tables as they are
C21_RegisterIdempotent ==
    [][\A i \in DOMAIN regs :
          (regs[i].pc = "selected" /\ regs'[i].pc = "done")
          => /\ RowsWithToken(devices, regs[i].token) = {}
                => /\ regs'[i].status = 201
                   /\ devices \subseteq devices'
                   /\ Cardinality(devices' \ devices) = 1
                   /\ \A r \in devices' \ devices :
                         /\ r.did = regs[i].did
                         /\ r.device_token = regs[i].token
                         /\ DOMAIN prefs' = DOMAIN prefs \cup {r.id}
                         /\ r.id \notin DOMAIN prefs
                         /\ prefs'[r.id] = DefaultPrefs
                   /\ \A id \in DOMAIN prefs : prefs'[id] = prefs[id]
             /\ (regs[i].found # 0 /\ regs[i].foundDid = regs[i].did)
                => /\ regs'[i].status = 200
                   /\ devices' = devices
                   /\ prefs' = prefs]_vars

\* a new pair was registered (201) and then registered again (200)
C21_Witness ==
    \E i, j \in DOMAIN regs :
        /\ regs[i].status = 201
        /\ regs[j].status = 200
        /\ regs[j].did = regs[i].did
        /\ regs[j].token = regs[i].token
        /\ regs[j].foundDid = regs[j].did
        /\ \E r \in devices : r.id = regs[j].found /\ r.id >= 2

\* C22: two update_relationships_batch calls with the same user, device
\* token, mutes and blocks, made one after the other, each leave the same
\* stored sets (plaintext and hashed) and the same cached sets of the user
\* behind, whatever other calls, expiries, reads and maintenance runs took
\* place between them
C22_BatchUpdateIdempotent ==
    \A i, j \in DOMAIN upds :
        (/\ i < j
         /\ upds[i].pc = "done"
         /\ upds[j].pc = "done"
         /\ upds[j].user = upds[i].user
         /\ upds[j].token = upds[i].token
         /\ upds[j].mutes = upds[i].mutes
         /\ upds[j].blocks = upds[i].blocks)
        => /\ upds[i].after.taken
           /\ upds[j].after = upds[i].after

\* the same non-empty lists were submitted twice in hashed mode, with a
\* call that stored other lists in between, and the cached entries the
\* second call left have since expired
C22_Witness ==
    /\ use_hashed_storage
    /\ \E i, k, j \in DOMAIN upds :
        /\ i < k /\ k < j
        /\ upds[i].pc = "done" /\ upds[k].pc = "done" /\ upds[j].pc = "done"
        /\ upds[j].mutes = upds[i].mutes /\ upds[j].blocks = upds[i].blocks
        /\ upds[i].mutes # {} /\ upds[i].blocks # {}
        /\ upds[k].mutes = {}
        /\ upds[j].after.user_mutes_hashed # {}
        /\ upds[j].after.mutes_cache.present

\* C23: a PUT /relationships whose mutes and blocks arrays both have at
\* most 1000 entries is not answered 400; one with an array of 1001 or
\* more entries is answered 400 and changes no relationship table, no
\* cache entry and not the audit log
C23_SizeLimit ==
    [][\A i \in DOMAIN upds :
          (upds[i].pc = "new" /\ upds'[i].pc # "new")
          => /\ (/\ Cardinality(upds'[i].mutes) <= 1000
                 /\ Cardinality(upds'[i].blocks) <= 1000)
                => RelationshipsStatus(upds'[i]) # 400
             /\ (\/ Cardinality(upds'[i].mutes) >= 1001
                 \/ Cardinality(upds'[i].blocks) >= 1001)
                => /\ RelationshipsStatus(upds'[i]) = 400
                   /\ UNCHANGED <<relStoreVars, relCacheVars>>]_vars

\* a request with 1001 mutes was refused and one with exactly 1000 mutes
\* from the same device was stored
C23_Witness ==
    \E i, j \in DOMAIN upds :
        /\ RelationshipsStatus(upds[i]) = 400
        /\ Cardinality(upds[i].mutes) = 1001
        /\ upds[i].token = "t1"
        /\ RelationshipsStatus(upds[j]) = 200
        /\ Cardinality(upds[j].mutes) = 1000
        /\ Cardinality(user_mutes[DidA]) = 1000

\* C24: an update_relationships_batch call for which no device row has
\* both the call's user and the call's device token fails, the request is
\* answered 401, and the relationship tables, the caches and the audit
\* log stay as they are
C24_UnauthorizedChangesNothing ==
    [][\A i \in DOMAIN upds :
          (/\ upds[i].pc = "new"
           /\ upds'[i].pc \notin {"new", "rejected"}
           /\ ~\E r \in devices : /\ r.did = upds'[i].user
                                  /\ r.device_token = upds'[i].token)
          => /\ upds'[i].pc = "failed"
             /\ RelationshipsStatus(upds'[i]) = 401
             /\ UNCHANGED <<relStoreVars, relCacheVars>>]_vars

\* a call with the token of another actor's device failed, and the same
\* lists were stored for the actor the token belongs to
C24_Witness ==
    \E i, j \in DOMAIN upds :
        /\ upds[i].pc = "failed"
        /\ upds[i].user = DidA
        /\ upds[i].token = "t2"
        /\ upds[i].mutes = {DidC}
        /\ user_mutes[DidA] = {}
        /\ upds[j].pc = "done"
        /\ upds[j].user = DidAB
        /\ upds[j].token = "t2"
        /\ user_mutes[DidAB] = {DidC}

\* C25: a post text a fetch returns for an upstream response has at most
\* 140 characters, and it ends with "..." exactly when the upstream text
\* has more than 140 characters
C25_TruncatedIffLonger ==
    (gotText # NoFetch /\ gotText.text # Panicked)
    => /\ Len(gotText.text) <= 140
       /\ (/\ Len(gotText.text) >= 3
           /\ SubSeq(gotText.text, Len(gotText.text) - 2,
                     Len(gotText.text)) = Dots)
          <=> Len(upText) > 140

\* C26: on the batch path and on the individual path alike, a text of at
\* most 140 characters is returned as it is and a longer text is returned
\* as its first 137 characters followed by "...", counted in characters,
\* also for texts with multi-byte characters
C26_SameBoundaryBothPaths ==
    gotText # NoFetch
    => gotText.text = IF Len(upText) <= 140 THEN upText
                      ELSE SubSeq(upText, 1, 137) \o Dots

\* C27: hash_did of the same DID and user computed twice gives the same
\* hash; for two different users the hashes of the same DID differ; and
\* did_matches_hash of a DID against hash_did(t, u) for the same user is
\* true exactly for the DID t
C27_HashDeterministicAndSalted ==
    hashOut.done
    => /\ hashOut.again = hashOut.first
       /\ hashIn.u2 # hashIn.u => hashOut.other # hashOut.first
       /\ hashOut.matches <=> hashIn.t2 = hashIn.t
       /\ hashOut.batch[1] = hashOut.first

\* the functions were applied to a DID, to a second DID that extends it,
\* and to two users of which one extends the other
C27_Witness ==
    /\ hashOut.done
    /\ hashIn.t = <<1>> /\ hashIn.t2 = <<1, 2>>
    /\ hashIn.u = <<2>> /\ hashIn.u2 = <<2, 1>>
    /\ ~hashOut.matches
    /\ hashOut.other # hashOut.first

\* C28: a payload is put on the notification channel only for the event
\* the classifier took last, and every payload enqueued before it stems
\* from that event or from an event that came earlier in the upstream
\* order (commit order, then op order)
C28_PayloadsInEventOrder ==
    [][\A p \in DOMAIN enqueued' :
          (p \notin DOMAIN enqueued \/ enqueued'[p] > enqueued[p])
          => /\ p.eid = evCount
             /\ \A q \in DOMAIN enqueued :
                   /\ q.eid <= p.eid
                   /\ q.eid = p.eid => q.kind = p.kind
                   /\ q.eid < p.eid
                      => Precedes(UpstreamPos(q.kind),
                                  UpstreamPos(p.kind))]_vars

\* both devices were sent a payload of a first event and then a payload
\* of a second event
C28_Witness ==
    /\ \E p, q \in DOMAIN enqueued :
          p.eid = 1 /\ q.eid = 1 /\ p.device_token # q.device_token
    /\ \E p, q \in DOMAIN enqueued :
          p.eid = 2 /\ q.eid = 2 /\ p.device_token # q.device_token

\* C29: when the connection fails or ends while the consumer streams (a
\* read error, an error frame, the stream closed by the peer, a message
\* that is not binary), the consumer leaves its frame loop for the top of
\* the connect loop, unless shutdown was signalled; it does not stay in
\* the frame loop waiting for the shutdown signal alone
C29_DeadLinkReconnects ==
    /\ [][(fh.pc = "streaming" /\ fh'.pc \notin {"streaming", "handling",
                                                 "stopped", "parked"})
          => fh'.pc = "connecting"]_vars
    /\ (fh.pc = "parked") ~> (fh.pc = "connecting" \/ sup.pc # "running")

\* C30: the cursor row of a commit is written only when every event of
\* that commit has been sent on the event channel, and it holds the seq of
\* that commit; what get_last_cursor reads back is the seq of the last
\* commit handled when no cursor write has failed, and never a later one;
\* and no event is sent for a commit whose seq is at or below a cursor
\* already persisted
C30_CursorAfterEvents ==
    /\ [][firehose_cursor' # firehose_cursor
          => /\ fh.pc = "handling"
             /\ fh.pending = <<>>
             /\ get_last_cursor(firehose_cursor') = to_string(fh.next)
             /\ Len(firehose_cursor') = Len(firehose_cursor) + 1]_vars
    /\ [](firehose_cursor # <<>>
          => ParseSeq(get_last_cursor(firehose_cursor)) <= delivered.seq)
    /\ []((fh.dbFails = 0 /\ delivered.seq > 0)
          => get_last_cursor(firehose_cursor) = to_string(delivered.seq))
    /\ [][(/\ Len(eventQ') > Len(eventQ)
           /\ firehose_cursor # <<>>)
          => ParseSeq(get_last_cursor(firehose_cursor)) < fh.next]_vars

\* three commits in a row were handled, the second with an event, and the
\* cursor read back is the two-digit seq of the third
C30_Witness ==
    /\ Len(cursorWrites) = 3
    /\ cursorWrites[1].seq + 1 = cursorWrites[2].seq
    /\ cursorWrites[2].seq + 1 = cursorWrites[3].seq
    /\ get_last_cursor(firehose_cursor) = to_string(MaxSeq)
    /\ Len(get_last_cursor(firehose_cursor)) = 2
    /\ \E p \in DOMAIN enqueued :
          UpstreamPos(p.kind)[1] = cursorWrites[2].seq

\* C31: a caller that waits for the request processor turns to its own
\* individual fetch only by its own 150 ms timeout, a step in which nothing
\* is registered and no other caller moves: no other call's registration
\* for the same or for another uri takes its entry out of request_queue
C31_MissesCoalesced ==
    [][\A i \in DOMAIN lookups :
          (lookups[i].pc = "queued" /\ lookups'[i].pc = "individual")
          => /\ request_queue' = request_queue
             /\ \A j \in DOMAIN lookups \ {i} : lookups'[j] = lookups[j]]_vars


C34_CacheHoldsUpstreamTextOnly ==
    \A u \in DOMAIN post_cache :
       /\ post_memory_cache[u] \in {NoText, UpstreamText[u]}
       /\ post_cache[u] \in {NoText, UpstreamText[u]}


\* C35: every payload the classifier enqueues is one the store allows:
\* the recipient has neither muted nor blocked the author in the tables,
\* and the device has a preference row with the flag of the kind on,
\* whether the queries of the event succeeded or failed
C35_StoreFailureSuppresses ==
    [][\A p \in DOMAIN enqueued' :
          (p \notin DOMAIN enqueued \/ enqueued'[p] > enqueued[p])
          => /\ filt.author \notin user_mutes[p.user_did]
             /\ filt.author \notin user_blocks[p.user_did]
             /\ \E r \in devices :
                   /\ r.device_token = p.device_token
                   /\ r.id \in DOMAIN prefs
                   /\ should_notify(prefs[r.id], p.kind)]_vars


\* C36: the tables of the relationship store change only in the commit of
\* one update_relationships_batch call, all together and with one audit
\* entry appended; a cache entry is replaced only by a call that has
\* committed; and in hashed mode the hashed tables hold, for every actor,
\* exactly the hashes of the rows of the plaintext tables
C36_AtomicAndLockStep ==
    /\ [][<<user_mutes, user_blocks, user_mutes_hashed, user_blocks_hashed,
            audit_log>>' #
          <<user_mutes, user_blocks, user_mutes_hashed, user_blocks_hashed,
            audit_log>>
          => /\ Len(audit_log') = Len(audit_log) + 1
             /\ \E i \in DOMAIN upds :
                   /\ upds[i].pc = "tx"
                   /\ upds'[i].pc = "committed"
                   /\ upds[i].mutes \subseteq user_mutes'[upds[i].user]
                   /\ upds[i].blocks \subseteq user_blocks'[upds[i].user]]_vars
    /\ [][<<mutes_cache, blocks_cache>>' # <<mutes_cache, blocks_cache>>
          => \E i \in DOMAIN upds :
                upds[i].pc \in {"committed", "mutes_cached"}]_vars
    /\ [](use_hashed_storage =>
             \A u \in RegDids :
                /\ user_mutes_hashed[u] = HashSet(user_mutes[u], u)
                /\ user_blocks_hashed[u] = HashSet(user_blocks[u], u))


\* C37: the classifier always gets back to its event channel: the
\* handling of an event ends, whatever the dispatcher does, and the next
\* event is then taken
C37_ClassifierNotBlocked ==
    /\ (filt.pc # "idle") ~> (filt.pc = "idle")
    /\ \A n \in 0..(MaxStalled - 1) : (evCount = n) ~> (evCount = n + 1)

\* the classifier has taken every event although the dispatcher has never
\* taken a payload: the channel is still full with the first payload of
\* the first event, a mention, whose second payload was given up
C37_Witness ==
    /\ evCount = MaxStalled
    /\ filt.pc = "idle"
    /\ disp = IdleDisp
    /\ accepted = EmptyBag
    /\ Len(notifQ) = NotifCap
    /\ notifQ[1].eid = 1
    /\ notifQ[1].kind = "Mention"
    /\ \A p \in DOMAIN enqueued : p = notifQ[1]


\* C38: in the handle cache and the post cache a reader returns no entry
\* with expires_at <= now, from the memory tier or from the persistent
\* tier, and a sweep of cleanup_expired removes from its tier the entries
\* with expires_at <= now and no others, leaving the rest as they were
C38_ExpiredIgnoredAndSwept ==
    /\ cacheOp.op \in {"get_from_memory_cache", "get_from_db_cache"}
       => /\ cacheOp.hit.present => ~(cacheOp.hit.expires_at <= cacheOp.at)
          /\ LET tier == IF cacheOp.op = "get_from_memory_cache"
                         THEN memory_cache ELSE db_cache
                 e == tier[cacheOp.c][cacheOp.key]
             IN IF e.present /\ ~(e.expires_at <= cacheOp.at)
                THEN cacheOp.hit = e
                ELSE cacheOp.hit = NoCachedInfo
    /\ cacheOp.op \in {"cleanup_memory", "cleanup_db"}
       => /\ \A k \in CacheKeys :
                IF cacheOp.before[k].present
                   /\ cacheOp.before[k].expires_at <= cacheOp.at
                THEN ~cacheOp.after[k].present
                ELSE cacheOp.after[k] = cacheOp.before[k]
          /\ cacheOp.op = "cleanup_memory"
             => memory_cache[cacheOp.c] = cacheOp.after
          /\ cacheOp.op = "cleanup_db"
             => db_cache[cacheOp.c] = cacheOp.after

\* a sweep of the persistent tier of the post cache at the very instant
\* one row expires: that row is gone, the row that expires later is kept
C38_Witness ==
    /\ cacheOp.op = "cleanup_db"
    /\ cacheOp.c = "post_cache"
    /\ cacheOp.before["k1"].present
    /\ cacheOp.before["k1"].expires_at = cacheOp.at
    /\ cacheOp.before["k2"].present
    /\ cacheOp.before["k2"].expires_at > cacheOp.at
    /\ ~db_cache["post_cache"]["k1"].present
    /\ db_cache["post_cache"]["k2"] = cacheOp.before["k2"]


\* C39: reconnect_attempts and reconnect_delay go back to their initial
\* values exactly when handle_commit has processed a commit successfully:
\* no other step of the consumer lowers them, and that step always does;
\* the consumer gives up only at the MAX_RECONNECTS-th failure counted
\* since then; reconnect_delay never exceeds 60
C39_ResetOnSuccessOnly ==
    /\ [][(/\ fh'.restarts = fh.restarts
           /\ \/ fh'.reconnect_attempts < fh.reconnect_attempts
              \/ fh'.reconnect_delay < fh.reconnect_delay)
          => (fh.pc = "handling" /\ fh'.pc = "streaming")]_vars
    /\ [][(fh.pc = "handling" /\ fh'.pc = "streaming")
          => (fh'.reconnect_attempts = 0 /\ fh'.reconnect_delay = 1)]_vars
    /\ [][(fh.pc # "failed" /\ fh'.pc = "failed")
          => (/\ fh.pc = "connecting"
              /\ fh.reconnect_attempts = MAX_RECONNECTS - 1
              /\ fh'.reconnect_attempts = MAX_RECONNECTS)]_vars
    /\ [](fh.reconnect_delay <= 60)

\* the counters only: the fatal exit is taken at the MAX_RECONNECTS-th
\* counted failure, and the delay stays within 60
C39_GiveUpAndCap ==
    /\ [][(fh.pc # "failed" /\ fh'.pc = "failed")
          => (/\ fh.pc = "connecting"
              /\ fh.reconnect_attempts = MAX_RECONNECTS - 1
              /\ fh'.reconnect_attempts = MAX_RECONNECTS)]_vars
    /\ [](fh.reconnect_delay <= 60)


\* C40: the handle extracted from a document's alsoKnownAs list is the
\* remainder of an entry that starts with "at://" whenever the list has
\* such an entry, wherever it stands; without one it is the part after
\* "/profile/" of an entry that contains it; without either it is "user_"
\* followed by the first 8 characters of the last colon-separated segment
\* of the document's id
C40_AtSchemePreferred ==
    hOut # PendingHandles
    => /\ hOut.status = "ok"
       /\ \A d \in VecToSet(hReq.dids) :
             LET aka == hReq.net[d].also_known_as
                 atNames == {i \in DOMAIN aka : starts_with(aka[i], Scheme)}
                 profNames == {i \in DOMAIN aka :
                                  Contains(aka[i], ProfileSep)}
                 seg == LastPart(hReq.net[d].id)
                 first8 == IF Len(seg) > 8 THEN SubSeq(seg, 1, 8) ELSE seg
             IN IF atNames # {}
                THEN \E i \in atNames :
                        hOut.map[d] = SubSeq(aka[i], Len(Scheme) + 1,
                                             Len(aka[i]))
                ELSE IF profNames # {}
                THEN \E i \in profNames :
                        hOut.map[d] = AfterSep(aka[i], ProfileSep)
                ELSE hOut.map[d] = UserPrefix \o first8

\* the same with the list taken in its order: the first entry of either
\* form gives the handle
C40_FirstMatchingEntry ==
    hOut # PendingHandles
    => /\ hOut.status = "ok"
       /\ \A d \in VecToSet(hReq.dids) :
             LET aka == hReq.net[d].also_known_as
                 hits == {i \in DOMAIN aka :
                             \/ starts_with(aka[i], Scheme)
                             \/ Contains(aka[i], ProfileSep)}
                 seg == LastPart(hReq.net[d].id)
                 first8 == IF Len(seg) > 8 THEN SubSeq(seg, 1, 8) ELSE seg
             IN IF hits = {} THEN hOut.map[d] = UserPrefix \o first8
                ELSE LET i == CHOOSE j \in hits : \A m \in hits : j <= m
                     IN hOut.map[d] =
                           IF starts_with(aka[i], Scheme)
                           THEN SubSeq(aka[i], Len(Scheme) + 1, Len(aka[i]))
                           ELSE AfterSep(aka[i], ProfileSep)


====
